---- MODULE Spec2Model ----
(***************************************************************************)
(* Read-through cache and write invalidation of the course catalog.        *)
(*                                                                         *)
(* The store is the Course collection (unique index on course_id), the     *)
(* cache is the Redis key space.  Every request is a task that advances    *)
(* one store call or one cache call at a time, so that requests can be     *)
(* run one after another (SpecSeq, SpecSeqFail, SpecList, SpecHttp,        *)
(* SpecWrite, SpecValidate, SpecTtl, SpecPage, SpecDetail) or interleaved  *)
(* at every call boundary (SpecConc, SpecTime, SpecRace); SpecTtl and      *)
(* SpecTime have a clock that ages the cache entries and drops them at     *)
(* their expiry.  SpecConn and SpecBackoff run the connection handling of  *)
(* RedisService: the clients it creates and their reconnect delays.        *)
(* SpecStats interleaves statistics reads with writes, SpecPaging pages    *)
(* through catalogs of every size, SpecUpload uploads CSV files,           *)
(* SpecHealth probes the health endpoint across cache outages, and         *)
(* SpecGemini asks for recommendations with every response of the AI.      *)
(*                                                                         *)
(* Abstractions: a course document is its course_id, rating (in tenths)    *)
(* and skill_level; a partial update carries a rating; a cache key         *)
(* "<prefix>:<rest>" is the record of its prefix and its rest; ties of     *)
(* the rating sort are broken by IdOrder.                                  *)
(***************************************************************************)
EXTENDS Integers, Sequences, FiniteSets, TLC

VARIABLES
  store,      \* the Course collection: course_id -> [rating, skill_level]
  cache,      \* the Redis key space: key -> [value, ttl, stale, age]
  cacheUp,    \* Redis reachable: a cache call made while FALSE fails
  redis,      \* the RedisService object: client, isConnected, and its clients
  pc,         \* per task: the call the request is about to make
  op,         \* per task: the operation and its arguments
  loc,        \* per task: local values of the running operation
  res,        \* per task: what the operation returned
  pend,       \* per task: the cache calls of a running Promise.all
  lastWrite,  \* history: per course_id, the last write since its last read
  swept       \* history: search keys the latest write's invalidation deleted

vars == <<store, cache, cacheUp, redis, pc, op, loc, res, pend, lastWrite, swept>>

-----------------------------------------------------------------------------
(* Bounds and input universes *)

NumTasks == 2
Tasks == 1..NumTasks
\* the task that serves the requests of a sequential run
SeqTasks == {1}

CourseIds == {"cs101", "stats"}
IdOrder == <<"cs101", "stats">>
OneId == {"cs101"}

MinRating == 0
MaxRating == 50
SkillLevels == {"beginner", "intermediate", "advanced"}

InputRatings == {30, 42, 51}

COURSE_DETAIL == 1800
SEARCH_RESULTS == 600
COURSE_LIST == 300
STATS_TTL == 900
ADVANCED_TTL == 300

-----------------------------------------------------------------------------
(* Cache keys *)

Key(prefix, id, opts) == [prefix |-> prefix, id |-> id, opts |-> opts]

\* `course:${courseId}`
courseKey(courseId) == Key("course", courseId, <<>>)

\* 'course:stats'
statsKey == Key("course", "stats", <<>>)

\* CourseCreateSchema: course_id z.string().min(1)
CourseIdValid(courseId) == courseId # ""

\* JSON.stringify of an options object: the fields in insertion order.
\* An options object is the sequence of its <<field, value>> pairs.
JSONstringifyObject(options) == options

\* `search:${JSON.stringify(options)}`
searchKey(options) == Key("search", "", JSONstringifyObject(options))

\* the value of a field of an options object, or the default of the
\* destructuring pattern when the field is absent
Field(options, name, default) ==
  IF \E i \in 1..Len(options) : options[i][1] = name
  THEN options[CHOOSE i \in 1..Len(options) :
                 /\ options[i][1] = name
                 /\ \A j \in (i+1)..Len(options) : options[j][1] # name][2]
  ELSE default

\* a glob pattern "<prefix>:*" matches the keys that start with "<prefix>:"
KeysMatching(c, prefix) == {k \in DOMAIN c : k.prefix = prefix}

-----------------------------------------------------------------------------
(* Payloads *)

NoPagination ==
  [currentPage |-> 0, totalPages |-> 0, hasNext |-> FALSE, hasPrev |-> FALSE]

NoStats == [totalCourses |-> 0, skillLevelCount |-> <<>>, averageRating |-> 0]

Payload(kind, courses, totalCount, pagination, stats) ==
  [kind |-> kind, courses |-> courses, totalCount |-> totalCount,
   pagination |-> pagination, stats |-> stats]

NullPayload == Payload("null", <<>>, 0, NoPagination, NoStats)

CoursePayload(doc) == Payload("course", <<doc>>, 1, NoPagination, NoStats)

\* JSON.stringify / JSON.parse of a payload
JSONstringify(payload) == [json |-> payload]
JSONparse(text) == text.json

-----------------------------------------------------------------------------
(* Store Gateway: the Course collection *)

Doc(s, id) ==
  [course_id |-> id, rating |-> s[id].rating, skill_level |-> s[id].skill_level]

\* Course.findOne({ course_id }).lean()
findOne(s, id) == IF id \in DOMAIN s THEN CoursePayload(Doc(s, id)) ELSE NullPayload

\* the rating validators left out
RatingValid_any(rating) == TRUE

\* the schema's validators: rating min 0 max 5, skill_level enum
RatingValid(rating) == rating >= MinRating /\ rating <= MaxRating
SkillValid(skill) == skill \in SkillLevels
SchemaValid(rating, skill) == RatingValid(rating) /\ SkillValid(skill)

HasField(options, name) == \E i \in 1..Len(options) : options[i][1] = name

\* the records a mongoQuery built from the filters matches: skill_level
\* when a skill level other than 'all' is given, rating $gte minRating
\* when minRating is given
Matching(s, skill, hasMin, minRating) ==
  {id \in DOMAIN s :
     /\ (skill # "" /\ skill # "all") => s[id].skill_level = skill
     /\ hasMin => s[id].rating >= minRating}

Rank(id) == CHOOSE i \in 1..Len(IdOrder) : IdOrder[i] = id

\* .sort({ rating: -1 })
RECURSIVE SortByRating(_, _)
SortByRating(s, ids) ==
  IF ids = {} THEN <<>>
  ELSE LET first == CHOOSE d \in ids : \A e \in ids :
                      \/ d = e
                      \/ s[d].rating > s[e].rating
                      \/ s[d].rating = s[e].rating /\ Rank(d) < Rank(e)
       IN <<Doc(s, first)>> \o SortByRating(s, ids \ {first})

\* .skip(skip).limit(limit)
SkipLimit(docs, skip, limit) ==
  IF skip >= Len(docs) THEN <<>>
  ELSE SubSeq(docs, skip + 1, IF skip + limit < Len(docs) THEN skip + limit ELSE Len(docs))

\* Math.floor(totalCount / limit)
CeilDiv_floor(totalCount, limit) == totalCount \div limit

\* Math.ceil(totalCount / limit)
CeilDiv(totalCount, limit) == (totalCount + limit - 1) \div limit

Pagination(page, limit, totalCount) ==
  [currentPage |-> page, totalPages |-> CeilDiv(totalCount, limit),
   hasNext |-> page * limit < totalCount, hasPrev |-> page > 1]

RECURSIVE SumRatings(_, _)
SumRatings(s, ids) ==
  IF ids = {} THEN 0
  ELSE LET id == CHOOSE x \in ids : TRUE IN s[id].rating + SumRatings(s, ids \ {id})

\* Course.countDocuments()
countAll(s) == Cardinality(DOMAIN s)

\* Course.aggregate([{ $group: { _id: '$skill_level', count: { $sum: 1 } } }])
\* reduced to the object skillLevelCount
groupBySkill(s) ==
  [k \in {s[id].skill_level : id \in DOMAIN s} |->
     Cardinality({id \in DOMAIN s : s[id].skill_level = k})]

\* Course.aggregate([{ $group: { _id: null, avgRating: { $avg: '$rating' } } }])
\* and avgRating[0]?.avgRating || 0, in tenths, rounded down
averageRating(s) ==
  IF DOMAIN s = {} THEN 0 ELSE SumRatings(s, DOMAIN s) \div Cardinality(DOMAIN s)

Remove(f, ks) == [k \in DOMAIN f \ ks |-> f[k]]
Put(f, k, v) == [x \in DOMAIN f \cup {k} |-> IF x = k THEN v ELSE f[x]]

-----------------------------------------------------------------------------
(* History: which cached or fetched values a store mutation outdates *)

\* a course payload is a view of one record; every listing and aggregate
\* can include any record
DependsOn(payload, ids) ==
  IF payload.kind \in {"course", "response"}
  THEN payload.courses[1].course_id \in ids
  ELSE payload.kind # "null" /\ ids # {}

MarkStale(c, ids) ==
  [k \in DOMAIN c |->
     IF DependsOn(JSONparse(c[k].value), ids) THEN [c[k] EXCEPT !.stale = TRUE] ELSE c[k]]

\* a task that holds a value fetched from the store and has not yet
\* written it to the cache
MarkFetched(l, ids) ==
  [t \in Tasks |->
     IF l[t].fetched /\ l[t].ids \cap ids # {}
     THEN [l[t] EXCEPT !.stale = TRUE] ELSE l[t]]

-----------------------------------------------------------------------------
(* Tasks *)

NewDoc(id, rating, skill) == [course_id |-> id, rating |-> rating, skill_level |-> skill]

\* the course documents the model creates
NewCourses ==
  {NewDoc("cs101", r, "beginner") : r \in InputRatings}
    \cup {NewDoc("stats", r, "advanced") : r \in InputRatings}

NoOp ==
  [name |-> "none", id |-> "", rating |-> 0, skill |-> "", options |-> <<>>,
   rows |-> <<>>, token |-> ""]

NoRes ==
  [status |-> "none", error |-> "", value |-> NullPayload, marker |-> "absent",
   hit |-> FALSE, fromStale |-> FALSE, inserted |-> 0, duplicates |-> 0,
   details |-> <<>>, totalRows |-> 0, validCourses |-> 0, errorRows |-> 0]

Loc0 ==
  [value |-> NullPayload, fetched |-> FALSE, ids |-> {}, stale |-> FALSE,
   before |-> {}, dels |-> {}, getFailed |-> FALSE, equivCached |-> FALSE,
   wasSwept |-> FALSE, after |-> "none", calls |-> {}, stages |-> <<>>,
   client |-> 0, ret |-> NoRes]

Ok(value) == [NoRes EXCEPT !.status = "ok", !.value = value]
Status(s) == [NoRes EXCEPT !.status = s]
Thrown(e) == [NoRes EXCEPT !.status = "error", !.error = e]

\* the RedisService before its first call: this.client = null,
\* this.isConnected = false, no client created
NoRedis == [client |-> 0, isConnected |-> FALSE, clients |-> << >>]

AllIdle == \A t \in Tasks : pc[t] = "idle"
Quiescent == \A t \in Tasks : pc[t] \in {"idle", "done"}

Init ==
  /\ store = <<>>
  /\ cache = <<>>
  /\ cacheUp = TRUE
  /\ redis = NoRedis
  /\ pc = [t \in Tasks |-> "idle"]
  /\ op = [t \in Tasks |-> NoOp]
  /\ loc = [t \in Tasks |-> Loc0]
  /\ res = [t \in Tasks |-> NoRes]
  /\ pend = [t \in Tasks |-> {}]
  /\ lastWrite = [id \in CourseIds |-> "none"]
  /\ swept = {}

\* the operation returns (or throws) r
Finish(t, r) ==
  /\ pc' = [pc EXCEPT ![t] = "done"]
  /\ res' = [res EXCEPT ![t] = r]

\* the caller has consumed the result; the task can serve another request
Return(t) ==
  /\ pc[t] = "done"
  /\ pc' = [pc EXCEPT ![t] = "idle"]
  /\ op' = [op EXCEPT ![t] = NoOp]
  /\ loc' = [loc EXCEPT ![t] = Loc0]
  /\ res' = [res EXCEPT ![t] = NoRes]
  /\ UNCHANGED <<store, cache, cacheUp, redis, pend, lastWrite, swept>>

-----------------------------------------------------------------------------
(* Cache Gateway: RedisService *)

\* an entry: its text, the expiry it was written with (0 when written
\* without one), and the seconds elapsed since it was written
Entry(text, ttl, stale) == [value |-> text, ttl |-> ttl, stale |-> stale, age |-> 0]

\* RedisService.get without its try/catch: a failing command throws
redisGet_throws(key) ==
  IF ~cacheUp
  THEN [outcome |-> "throw", text |-> JSONstringify(NullPayload), stale |-> FALSE]
  ELSE IF key \in DOMAIN cache
  THEN [outcome |-> "value", text |-> cache[key].value, stale |-> cache[key].stale]
  ELSE [outcome |-> "null", text |-> JSONstringify(NullPayload), stale |-> FALSE]

\* RedisService.get: the value, null when the key is absent, null when
\* connecting or the command fails
redisGet(key) ==
  IF cacheUp /\ key \in DOMAIN cache
  THEN [outcome |-> "value", text |-> cache[key].value, stale |-> cache[key].stale]
  ELSE [outcome |-> "null", text |-> JSONstringify(NullPayload), stale |-> FALSE]

\* RedisService.set that never passes the expiry on
redisSet_noExpiry(key, text, expireInSeconds, stale) ==
  IF cacheUp
  THEN [outcome |-> "true", cache |-> Put(cache, key, Entry(text, 0, stale))]
  ELSE [outcome |-> "false", cache |-> cache]

\* RedisService.set: setEx with the expiry; false when it fails
redisSet(key, text, expireInSeconds, stale) ==
  IF cacheUp
  THEN [outcome |-> "true", cache |-> Put(cache, key, Entry(text, expireInSeconds, stale))]
  ELSE [outcome |-> "false", cache |-> cache]

\* RedisService.del without its try/catch: a failing command throws
redisDel_throws(keys) ==
  IF cacheUp
  THEN [outcome |-> "true", cache |-> Remove(cache, keys)]
  ELSE [outcome |-> "throw", cache |-> cache]

\* RedisService.del, and the del(keys) of flushPattern
redisDel(keys) ==
  IF cacheUp
  THEN [outcome |-> "true", cache |-> Remove(cache, keys)]
  ELSE [outcome |-> "false", cache |-> cache]

\* the keys(pattern) of flushPattern
redisKeys(prefix) ==
  IF cacheUp
  THEN [outcome |-> "keys", keys |-> KeysMatching(cache, prefix)]
  ELSE [outcome |-> "false", keys |-> {}]

\* RedisService.exists: result === 1; false when it fails
redisExists(key) ==
  [outcome |-> IF cacheUp /\ key \in DOMAIN cache THEN "true" ELSE "false"]

\* RedisService.flushPattern as one call: keys(pattern), del(keys) when
\* there are any, true; false when one of them fails
flushPattern(prefix) ==
  LET found == redisKeys(prefix) IN
    IF found.outcome # "keys" THEN [outcome |-> "false", cache |-> cache]
    ELSE IF found.keys = {} THEN [outcome |-> "true", cache |-> cache]
    ELSE redisDel(found.keys)

\* a pending cache call of a Promise.all
DelCall(key) == [call |-> "del", pattern |-> "", keys |-> {key}]
FlushCall(prefix) == [call |-> "keys", pattern |-> prefix, keys |-> {}]
FlushDelCall(prefix, keys) == [call |-> "delKeys", pattern |-> prefix, keys |-> keys]

\* history: the search keys among keys that a del removed
Swept(keys, before, after) ==
  {k \in keys \cap (DOMAIN before \ DOMAIN after) : k.prefix = "search"}

\* a cache call of an invalidation has settled with outcome r: an
\* exception it let through rejects the Promise.all and the operation
DelSettled(t, c, r) ==
  IF r.outcome = "throw"
  THEN /\ Finish(t, Thrown("cache"))
       /\ pend' = [pend EXCEPT ![t] = {}]
       /\ UNCHANGED <<cache, swept, loc>>
  ELSE /\ cache' = r.cache
       /\ swept' = swept \cup Swept(c.keys, cache, r.cache)
       /\ loc' = [loc EXCEPT ![t].dels = @ \cup (c.keys \cap (DOMAIN cache \ DOMAIN r.cache))]
       /\ pend' = [pend EXCEPT ![t] = @ \ {c}]
       /\ UNCHANGED <<pc, res>>

\* redisService.del(key) of an invalidation
RedisDel(t) ==
  /\ pc[t] = "inval"
  /\ \E c \in pend[t] :
       /\ c.call = "del"
       /\ DelSettled(t, c, redisDel(c.keys))
  /\ UNCHANGED <<store, cacheUp, redis, op, lastWrite>>

\* flushPattern, first call: client.keys(pattern)
FlushPatternKeys(t) ==
  /\ pc[t] = "inval"
  /\ \E c \in pend[t] :
       /\ c.call = "keys"
       /\ LET r == redisKeys(c.pattern) IN
            IF r.outcome = "throw"
            THEN /\ Finish(t, Thrown("cache"))
                 /\ pend' = [pend EXCEPT ![t] = {}]
            ELSE /\ pend' = [pend EXCEPT ![t] =
                               IF r.keys = {} THEN @ \ {c}
                               ELSE (@ \ {c}) \cup {FlushDelCall(c.pattern, r.keys)}]
                 /\ UNCHANGED <<pc, res>>
  /\ UNCHANGED <<store, cache, cacheUp, redis, op, loc, lastWrite, swept>>

\* flushPattern, second call: client.del(keys)
FlushPatternDel(t) ==
  /\ pc[t] = "inval"
  /\ \E c \in pend[t] :
       /\ c.call = "delKeys"
       /\ DelSettled(t, c, redisDel(c.keys))
  /\ UNCHANGED <<store, cacheUp, redis, op, lastWrite>>

\* every call of the Promise.all has settled: the next awaited stage
\* starts, or the operation returns
InvalidateDone(t) ==
  /\ pc[t] = "inval"
  /\ pend[t] = {}
  /\ IF loc[t].stages # <<>>
     THEN /\ pend' = [pend EXCEPT ![t] = Head(loc[t].stages)]
          /\ loc' = [loc EXCEPT ![t].stages = Tail(@)]
          /\ UNCHANGED <<pc, res>>
     ELSE /\ Finish(t, loc[t].ret)
          /\ UNCHANGED <<pend, loc>>
  /\ UNCHANGED <<store, cache, cacheUp, redis, op, lastWrite, swept>>

\* invalidateSearchCaches without its flushPattern('search:*')
invalidateSearchCaches_noSearch ==
  {FlushCall("courses"), DelCall(statsKey)}

\* invalidateSearchCaches without its flushPattern('courses:*')
invalidateSearchCaches_noCourses ==
  {FlushCall("search"), DelCall(statsKey)}

\* CourseService.invalidateSearchCaches
invalidateSearchCaches ==
  {FlushCall("search"), FlushCall("courses"), DelCall(statsKey)}

\* a write that also stores the records it wrote under their detail keys
Mutation_writeThrough(t, newStore, ids, tag, l) ==
  /\ store' = newStore
  /\ cache' = [k \in DOMAIN cache \cup {courseKey(id) : id \in ids \cap DOMAIN newStore} |->
                IF k.prefix = "course" /\ k.id \in ids \cap DOMAIN newStore
                THEN Entry(JSONstringify(findOne(newStore, k.id)), COURSE_DETAIL, FALSE)
                ELSE MarkStale(cache, ids)[k]]
  /\ loc' = [MarkFetched(loc, ids) EXCEPT ![t] = l]
  /\ lastWrite' = [id \in CourseIds |-> IF id \in ids THEN tag ELSE lastWrite[id]]
  /\ swept' = {}

\* a store mutation of the records ids was acknowledged: the new store,
\* and the history of what it outdates
Mutation(t, newStore, ids, tag, l) ==
  /\ store' = newStore
  /\ cache' = MarkStale(cache, ids)
  /\ loc' = [MarkFetched(loc, ids) EXCEPT ![t] = l]
  /\ lastWrite' = [id \in CourseIds |-> IF id \in ids THEN tag ELSE lastWrite[id]]
  /\ swept' = {}

-----------------------------------------------------------------------------
(* RedisService.connect: the connection of the Cache Gateway *)

\* the clients and the reconnection attempts the model follows
MaxClients == 2
MaxRetries == 22

\* reconnectStrategy without its cap
reconnectStrategy_uncapped(retries) == retries * 50

\* reconnectStrategy: (retries) => Math.min(retries * 50, 1000)
reconnectStrategy(retries) == IF retries * 50 < 1000 THEN retries * 50 ELSE 1000

\* a client made by createClient, before its connect() has succeeded
NewClient == [state |-> "connecting", retries |-> 0, delay |-> 0]

ClientIds == 1..Len(redis.clients)

\* the clients whose socket is open or being opened
LiveClients == {c \in ClientIds : redis.clients[c].state # "closed"}

\* a get, set, del, exists or flushPattern is called: it starts with
\* await this.connect()
RedisService_call(t) ==
  /\ pc[t] = "idle"
  /\ pc' = [pc EXCEPT ![t] = "connect"]
  /\ op' = [op EXCEPT ![t] = [NoOp EXCEPT !.name = "RedisService"]]
  /\ UNCHANGED <<store, cache, cacheUp, redis, loc, res, pend, lastWrite, swept>>

\* connect(): if (this.isConnected && this.client) return this.client;
\* else this.client = createClient(...), the two handlers, and
\* this.client.connect() is started
connect(t) ==
  /\ pc[t] = "connect"
  /\ IF redis.isConnected /\ redis.client # 0
     THEN /\ pc' = [pc EXCEPT ![t] = "command"]
          /\ loc' = [loc EXCEPT ![t].client = redis.client]
          /\ UNCHANGED redis
     ELSE /\ Len(redis.clients) < MaxClients
          /\ redis' = [redis EXCEPT !.client = Len(redis.clients) + 1,
                                    !.clients = Append(@, NewClient)]
          /\ pc' = [pc EXCEPT ![t] = "connect_await"]
          /\ loc' = [loc EXCEPT ![t].client = Len(redis.clients) + 1]
  /\ UNCHANGED <<store, cache, cacheUp, op, res, pend, lastWrite, swept>>

\* await this.client.connect() has resolved: return this.client
connect_resolved(t) ==
  /\ pc[t] = "connect_await"
  /\ redis.clients[loc[t].client].state = "ready"
  /\ pc' = [pc EXCEPT ![t] = "command"]
  /\ UNCHANGED <<store, cache, cacheUp, redis, op, loc, res, pend, lastWrite, swept>>

\* await this.client.connect() has thrown: this.client = null,
\* this.isConnected = false, throw error; the operation catches it and
\* returns null or false
connect_rejected(t) ==
  /\ pc[t] = "connect_await"
  /\ redis.clients[loc[t].client].state \in {"connecting", "reconnecting"}
  /\ redis' = [redis EXCEPT !.client = 0, !.isConnected = FALSE,
                            !.clients[loc[t].client].state = "closed"]
  /\ Finish(t, Status("null"))
  /\ UNCHANGED <<store, cache, cacheUp, op, loc, pend, lastWrite, swept>>

\* the command on the client connect() returned: it succeeds on an open
\* socket; otherwise it throws and the operation returns null or false
command(t) ==
  /\ pc[t] = "command"
  /\ Finish(t, Status(IF redis.clients[loc[t].client].state = "ready" THEN "ok" ELSE "null"))
  /\ UNCHANGED <<store, cache, cacheUp, redis, op, loc, pend, lastWrite, swept>>

\* client.on('connect'): this.isConnected = true
clientConnectEvent(c) ==
  /\ redis.clients[c].state \in {"connecting", "reconnecting"}
  /\ redis' = [redis EXCEPT !.isConnected = TRUE,
                            !.clients[c] = [state |-> "ready", retries |-> 0, delay |-> 0]]
  /\ UNCHANGED <<store, cache, cacheUp, pc, op, loc, res, pend, lastWrite, swept>>

\* client.on('error'): this.isConnected = false; the socket retries after
\* reconnectStrategy(retries)
clientErrorEvent(c, maxRetries) ==
  /\ redis.clients[c].state # "closed"
  /\ redis.clients[c].retries < maxRetries
  /\ redis' = [redis EXCEPT !.isConnected = FALSE,
                            !.clients[c] = [state |-> "reconnecting",
                                            retries |-> redis.clients[c].retries + 1,
                                            delay |-> reconnectStrategy(redis.clients[c].retries)]]
  /\ UNCHANGED <<store, cache, cacheUp, pc, op, loc, res, pend, lastWrite, swept>>

\* disconnect(): if (this.client && this.isConnected) { await
\* this.client.quit(); this.isConnected = false }
disconnect ==
  /\ redis.client # 0 /\ redis.isConnected
  /\ redis' = [redis EXCEPT !.isConnected = FALSE, !.clients[redis.client].state = "closed"]
  /\ UNCHANGED <<store, cache, cacheUp, pc, op, loc, res, pend, lastWrite, swept>>

-----------------------------------------------------------------------------
(* CourseService.getCourseById *)

getCourseById(t, courseId) ==
  /\ pc[t] = "idle"
  /\ pc' = [pc EXCEPT ![t] = "getCourseById_get"]
  /\ op' = [op EXCEPT ![t] = [NoOp EXCEPT !.name = "getCourseById", !.id = courseId]]
  /\ loc' = [loc EXCEPT ![t] = [Loc0 EXCEPT !.after = lastWrite[courseId],
                                            !.ids = {courseId}]]
  /\ lastWrite' = [lastWrite EXCEPT ![courseId] = "none"]
  /\ UNCHANGED <<store, cache, cacheUp, redis, res, pend, swept>>

\* const cachedCourse = await redisService.get(cacheKey);
\* if (cachedCourse) return JSON.parse(cachedCourse)
getCourseById_get(t) ==
  /\ pc[t] = "getCourseById_get"
  /\ LET r == redisGet(courseKey(op[t].id)) IN
       CASE r.outcome = "throw" ->
              /\ Finish(t, Thrown("cache"))
              /\ UNCHANGED loc
         [] r.outcome = "value" ->
              /\ Finish(t, [Ok(JSONparse(r.text)) EXCEPT !.hit = TRUE,
                                                         !.fromStale = r.stale])
              /\ UNCHANGED loc
         [] OTHER ->
              /\ pc' = [pc EXCEPT ![t] = "getCourseById_findOne"]
              /\ loc' = [loc EXCEPT ![t].getFailed = ~cacheUp]
              /\ UNCHANGED res
  /\ UNCHANGED <<store, cache, cacheUp, redis, op, pend, lastWrite, swept>>

\* const course = await Course.findOne({ course_id: courseId }).lean();
\* if (!course) return null
getCourseById_findOne(t) ==
  /\ pc[t] = "getCourseById_findOne"
  /\ \E storeUp \in BOOLEAN : IF ~storeUp
     THEN /\ Finish(t, Thrown("store"))
          /\ UNCHANGED loc
     ELSE LET course == findOne(store, op[t].id) IN
            IF course.kind = "null"
            THEN /\ Finish(t, Status("null"))
                 /\ UNCHANGED loc
            ELSE /\ pc' = [pc EXCEPT ![t] = "getCourseById_set"]
                 /\ loc' = [loc EXCEPT ![t].value = course, ![t].fetched = TRUE]
                 /\ UNCHANGED res
  /\ UNCHANGED <<store, cache, cacheUp, redis, op, pend, lastWrite, swept>>

\* await redisService.set(cacheKey, JSON.stringify(course), COURSE_DETAIL)
getCourseById_set(t) ==
  /\ pc[t] = "getCourseById_set"
  /\ LET r == redisSet(courseKey(op[t].id), JSONstringify(loc[t].value),
                       COURSE_DETAIL, loc[t].stale) IN
       IF r.outcome = "throw"
       THEN /\ Finish(t, Thrown("cache"))
            /\ UNCHANGED <<cache, swept>>
       ELSE /\ cache' = r.cache
            /\ swept' = IF r.outcome = "true" THEN swept \ {courseKey(op[t].id)} ELSE swept
            /\ Finish(t, Ok(loc[t].value))
  /\ loc' = [loc EXCEPT ![t].fetched = FALSE]
  /\ UNCHANGED <<store, cacheUp, redis, op, pend, lastWrite>>

-----------------------------------------------------------------------------
(* CourseService.createCourse / updateCourse / deleteCourse *)

createCourse(t, courseId, rating, skill) ==
  /\ pc[t] = "idle"
  /\ pc' = [pc EXCEPT ![t] = "createCourse_save"]
  /\ op' = [op EXCEPT ![t] = [NoOp EXCEPT !.name = "createCourse", !.id = courseId,
                                          !.rating = rating, !.skill = skill]]
  /\ loc' = [loc EXCEPT ![t] = [Loc0 EXCEPT !.before = DOMAIN cache]]
  /\ UNCHANGED <<store, cache, cacheUp, redis, res, pend, lastWrite, swept>>

\* const savedCourse = await course.save(); then invalidateSearchCaches()
createCourse_save(t) ==
  /\ pc[t] = "createCourse_save"
  /\ \E storeUp \in BOOLEAN : LET failure ==
           IF ~storeUp THEN "store"
           ELSE IF ~SchemaValid(op[t].rating, op[t].skill) THEN "validation"
           ELSE IF op[t].id \in DOMAIN store THEN "duplicate"
           ELSE ""
         saved == [rating |-> op[t].rating, skill_level |-> op[t].skill]
         newStore == Put(store, op[t].id, saved)
     IN IF failure # ""
        THEN /\ Finish(t, Thrown(failure))
             /\ UNCHANGED <<store, cache, loc, pend, lastWrite, swept>>
        ELSE /\ Mutation(t, newStore, {op[t].id}, "create",
                         [loc[t] EXCEPT !.ret = Ok(findOne(newStore, op[t].id))])
             /\ pc' = [pc EXCEPT ![t] = "inval"]
             /\ pend' = [pend EXCEPT ![t] = invalidateSearchCaches]
             /\ UNCHANGED res
  /\ UNCHANGED <<cacheUp, redis, op>>

updateCourse(t, courseId, rating) ==
  /\ pc[t] = "idle"
  /\ pc' = [pc EXCEPT ![t] = "updateCourse_findOneAndUpdate"]
  /\ op' = [op EXCEPT ![t] = [NoOp EXCEPT !.name = "updateCourse", !.id = courseId,
                                          !.rating = rating]]
  /\ loc' = [loc EXCEPT ![t] = [Loc0 EXCEPT !.before = DOMAIN cache]]
  /\ UNCHANGED <<store, cache, cacheUp, redis, res, pend, lastWrite, swept>>

\* the invalidation without its if (updatedCourse) / if (result)
invalidateCourse_always(found, courseId) ==
  {DelCall(courseKey(courseId))} \cup invalidateSearchCaches

\* if (updatedCourse) / if (result): the cache calls updateCourse and
\* deleteCourse make once the store call has returned
invalidateCourse(found, courseId) ==
  IF found THEN {DelCall(courseKey(courseId))} \cup invalidateSearchCaches ELSE {}

\* history: another updateCourse of the same course_id is between its call
\* and its return
Overlapping(t) ==
  \E u \in Tasks \ {t} :
    /\ op[u].name = "updateCourse" /\ op[u].id = op[t].id
    /\ pc[u] \in {"updateCourse_findOneAndUpdate", "inval"}

\* Course.findOneAndUpdate({ course_id }, updateData, { new, runValidators });
\* if (updatedCourse) the invalidation, else null
updateCourse_findOneAndUpdate(t) ==
  /\ pc[t] = "updateCourse_findOneAndUpdate"
  /\ \E storeUp \in BOOLEAN : LET failure ==
           IF ~storeUp THEN "store"
           ELSE IF ~RatingValid(op[t].rating) THEN "validation"
           ELSE ""
         updatedCourse == op[t].id \in DOMAIN store
         newStore == [store EXCEPT ![op[t].id].rating = op[t].rating]
     IN IF failure # ""
        THEN /\ Finish(t, Thrown(failure))
             /\ UNCHANGED <<store, cache, loc, pend, lastWrite, swept>>
        ELSE /\ IF updatedCourse
                THEN Mutation(t, newStore, {op[t].id},
                              IF Overlapping(t) THEN "updateRaced" ELSE "update",
                              [loc[t] EXCEPT !.ret = Ok(findOne(newStore, op[t].id))])
                ELSE /\ loc' = [loc EXCEPT ![t].ret = Status("null")]
                     /\ UNCHANGED <<store, cache, lastWrite, swept>>
             /\ pc' = [pc EXCEPT ![t] = "inval"]
             /\ pend' = [pend EXCEPT ![t] = invalidateCourse(updatedCourse, op[t].id)]
             /\ UNCHANGED res
  /\ UNCHANGED <<cacheUp, redis, op>>

deleteCourse(t, courseId) ==
  /\ pc[t] = "idle"
  /\ pc' = [pc EXCEPT ![t] = "deleteCourse_findOneAndDelete"]
  /\ op' = [op EXCEPT ![t] = [NoOp EXCEPT !.name = "deleteCourse", !.id = courseId]]
  /\ loc' = [loc EXCEPT ![t] = [Loc0 EXCEPT !.before = DOMAIN cache]]
  /\ UNCHANGED <<store, cache, cacheUp, redis, res, pend, lastWrite, swept>>

\* Course.findOneAndDelete({ course_id }); if (result) the invalidation
\* and true, else false
deleteCourse_findOneAndDelete(t) ==
  /\ pc[t] = "deleteCourse_findOneAndDelete"
  /\ \E storeUp \in BOOLEAN : IF ~storeUp
     THEN /\ Finish(t, Thrown("store"))
          /\ UNCHANGED <<store, cache, loc, pend, lastWrite, swept>>
     ELSE LET result == op[t].id \in DOMAIN store IN
          /\ IF result
             THEN Mutation(t, Remove(store, {op[t].id}), {op[t].id}, "delete",
                           [loc[t] EXCEPT !.ret = Status("true")])
             ELSE /\ loc' = [loc EXCEPT ![t].ret = Status("false")]
                  /\ UNCHANGED <<store, cache, lastWrite, swept>>
          /\ pc' = [pc EXCEPT ![t] = "inval"]
          /\ pend' = [pend EXCEPT ![t] = invalidateCourse(result, op[t].id)]
          /\ UNCHANGED res
  /\ UNCHANGED <<cacheUp, redis, op>>

-----------------------------------------------------------------------------
(* CourseService.searchCourses *)

\* the options objects the model searches with: the two
\* assign the same values to the same fields in a different insertion order
SearchOptions ==
  { << <<"skillLevel", "beginner">>, <<"page", 1>> >>,
    << <<"page", 1>>, <<"skillLevel", "beginner">> >> }

OneOption == { << <<"skillLevel", "beginner">>, <<"page", 1>> >> }

FieldSet(options) == {options[i] : i \in 1..Len(options)}

\* the options objects whose page or limit is outside the bounds of
\* CourseSearchSchema, and one inside them
PageOptions ==
  { << <<"page", 0>> >>, << <<"limit", 101>> >>, << <<"page", 1>>, <<"limit", 20>> >> }

\* the options objects that leave out every field, or give query its
\* default
DefaultOptions == { << >>, << <<"query", "">> >> }

\* const { query = '', category, skillLevel, minRating, page = 1, limit = 20 } = options:
\* the query that searchCourses runs for an options object
searchDestructured(options) ==
  [query |-> Field(options, "query", ""),
   skillLevel |-> Field(options, "skillLevel", ""),
   hasMinRating |-> HasField(options, "minRating"),
   minRating |-> Field(options, "minRating", 0),
   page |-> Field(options, "page", 1),
   limit |-> Field(options, "limit", 20)]

\* const skip = (page - 1) * limit
searchSkip(options) == (Field(options, "page", 1) - 1) * Field(options, "limit", 20)

\* Course.find(mongoQuery).sort(sortCriteria).skip(skip).limit(limit).lean();
\* the store refuses a negative skip
searchFind(s, options) ==
  LET page == Field(options, "page", 1)
      limit == Field(options, "limit", 20)
      ids == Matching(s, Field(options, "skillLevel", ""),
                      HasField(options, "minRating"), Field(options, "minRating", 0))
  IN SkipLimit(SortByRating(s, ids), (page - 1) * limit, limit)

\* Course.countDocuments(mongoQuery)
searchCount(s, options) ==
  Cardinality(Matching(s, Field(options, "skillLevel", ""),
                       HasField(options, "minRating"), Field(options, "minRating", 0)))

\* the CourseSearchResult assembled from the two answers
SearchResult(options, courses, totalCount) ==
  Payload("search", courses, totalCount,
          Pagination(Field(options, "page", 1), Field(options, "limit", 20), totalCount),
          NoStats)

searchCourses(t, options) ==
  /\ pc[t] = "idle"
  /\ pc' = [pc EXCEPT ![t] = "searchCourses_get"]
  /\ op' = [op EXCEPT ![t] = [NoOp EXCEPT !.name = "searchCourses", !.options = options]]
  /\ loc' = [loc EXCEPT ![t] = [Loc0 EXCEPT !.ids = CourseIds]]
  /\ UNCHANGED <<store, cache, cacheUp, redis, res, pend, lastWrite, swept>>

\* const cachedResult = await redisService.get(cacheKey);
\* if (cachedResult) return { ...JSON.parse(cachedResult), cached: true }
searchCourses_get(t) ==
  /\ pc[t] = "searchCourses_get"
  /\ LET key == searchKey(op[t].options)
         r == redisGet(key)
         equiv == cacheUp /\ \E k \in DOMAIN cache :
                    /\ k.prefix = "search"
                    /\ FieldSet(k.opts) = FieldSet(op[t].options)
     IN CASE r.outcome = "throw" ->
               /\ Finish(t, Thrown("cache"))
               /\ UNCHANGED loc
          [] r.outcome = "value" ->
               /\ Finish(t, [Ok(JSONparse(r.text)) EXCEPT !.hit = TRUE, !.marker = "true",
                                                          !.fromStale = r.stale])
               /\ loc' = [loc EXCEPT ![t].equivCached = equiv]
          [] OTHER ->
               /\ pc' = [pc EXCEPT ![t] = "searchCourses_query"]
               /\ loc' = [loc EXCEPT ![t].getFailed = ~cacheUp,
                                     ![t].equivCached = equiv,
                                     ![t].wasSwept = key \in swept,
                                     ![t].calls = {"find", "countDocuments"}]
               /\ UNCHANGED res
  /\ UNCHANGED <<store, cache, cacheUp, redis, op, pend, lastWrite, swept>>

\* Promise.all, first member: Course.find(...)
searchCourses_find(t) ==
  /\ pc[t] = "searchCourses_query"
  /\ "find" \in loc[t].calls
  /\ \E storeUp \in BOOLEAN : IF ~storeUp \/ searchSkip(op[t].options) < 0
     THEN /\ Finish(t, Thrown("store"))
          /\ UNCHANGED loc
     ELSE /\ loc' = [loc EXCEPT ![t].value.courses = searchFind(store, op[t].options),
                                ![t].fetched = TRUE,
                                ![t].calls = @ \ {"find"}]
          /\ UNCHANGED <<pc, res>>
  /\ UNCHANGED <<store, cache, cacheUp, redis, op, pend, lastWrite, swept>>

\* Promise.all, second member: Course.countDocuments(mongoQuery)
searchCourses_countDocuments(t) ==
  /\ pc[t] = "searchCourses_query"
  /\ "countDocuments" \in loc[t].calls
  /\ \E storeUp \in BOOLEAN : IF ~storeUp
     THEN /\ Finish(t, Thrown("store"))
          /\ UNCHANGED loc
     ELSE /\ loc' = [loc EXCEPT ![t].value.totalCount = searchCount(store, op[t].options),
                                ![t].fetched = TRUE,
                                ![t].calls = @ \ {"countDocuments"}]
          /\ UNCHANGED <<pc, res>>
  /\ UNCHANGED <<store, cache, cacheUp, redis, op, pend, lastWrite, swept>>

\* await redisService.set(cacheKey, JSON.stringify(result), SEARCH_RESULTS)
searchCourses_set(t) ==
  /\ pc[t] = "searchCourses_query"
  /\ loc[t].calls = {}
  /\ LET result == SearchResult(op[t].options, loc[t].value.courses, loc[t].value.totalCount)
         key == searchKey(op[t].options)
         r == redisSet(key, JSONstringify(result), SEARCH_RESULTS, loc[t].stale)
     IN IF r.outcome = "throw"
        THEN /\ Finish(t, Thrown("cache"))
             /\ UNCHANGED <<cache, swept>>
        ELSE /\ cache' = r.cache
             /\ swept' = IF r.outcome = "true" THEN swept \ {key} ELSE swept
             /\ Finish(t, [Ok(result) EXCEPT !.marker = "false"])
  /\ loc' = [loc EXCEPT ![t].fetched = FALSE]
  /\ UNCHANGED <<store, cacheUp, redis, op, pend, lastWrite>>

-----------------------------------------------------------------------------
(* CourseService.getCourseStats *)

StatsPayload(totalCourses, skillLevelCount, avg) ==
  Payload("stats", <<>>, 0, NoPagination,
          [totalCourses |-> totalCourses, skillLevelCount |-> skillLevelCount,
           averageRating |-> avg])

\* the statistics of one state of the store
StatsOf(s) == StatsPayload(countAll(s), groupBySkill(s), averageRating(s))

getCourseStats(t) ==
  /\ pc[t] = "idle"
  /\ pc' = [pc EXCEPT ![t] = "getCourseStats_get"]
  /\ op' = [op EXCEPT ![t] = [NoOp EXCEPT !.name = "getCourseStats"]]
  /\ loc' = [loc EXCEPT ![t] = [Loc0 EXCEPT !.ids = CourseIds]]
  /\ UNCHANGED <<store, cache, cacheUp, redis, res, pend, lastWrite, swept>>

\* const cachedStats = await redisService.get('course:stats');
\* if (cachedStats) return JSON.parse(cachedStats)
getCourseStats_get(t) ==
  /\ pc[t] = "getCourseStats_get"
  /\ LET r == redisGet(statsKey) IN
       CASE r.outcome = "throw" ->
              /\ Finish(t, Thrown("cache"))
              /\ UNCHANGED loc
         [] r.outcome = "value" ->
              /\ Finish(t, [Ok(JSONparse(r.text)) EXCEPT !.hit = TRUE,
                                                         !.fromStale = r.stale])
              /\ UNCHANGED loc
         [] OTHER ->
              /\ pc' = [pc EXCEPT ![t] = "getCourseStats_query"]
              /\ loc' = [loc EXCEPT ![t].getFailed = ~cacheUp,
                                    ![t].wasSwept = statsKey \in swept,
                                    ![t].value = StatsPayload(0, <<>>, 0),
                                    ![t].calls = {"countDocuments", "skillLevelStats",
                                                  "avgRating"}]
              /\ UNCHANGED res
  /\ UNCHANGED <<store, cache, cacheUp, redis, op, pend, lastWrite, swept>>

\* Promise.all member: Course.countDocuments()
getCourseStats_countDocuments(t) ==
  /\ pc[t] = "getCourseStats_query"
  /\ "countDocuments" \in loc[t].calls
  /\ \E storeUp \in BOOLEAN : IF ~storeUp
     THEN /\ Finish(t, Thrown("store"))
          /\ UNCHANGED loc
     ELSE /\ loc' = [loc EXCEPT ![t].value.stats.totalCourses = countAll(store),
                                ![t].fetched = TRUE,
                                ![t].calls = @ \ {"countDocuments"}]
          /\ UNCHANGED <<pc, res>>
  /\ UNCHANGED <<store, cache, cacheUp, redis, op, pend, lastWrite, swept>>

\* Promise.all member: the $group aggregation by skill_level (the
\* aggregation by category groups the same records in the same way)
getCourseStats_skillLevelStats(t) ==
  /\ pc[t] = "getCourseStats_query"
  /\ "skillLevelStats" \in loc[t].calls
  /\ \E storeUp \in BOOLEAN : IF ~storeUp
     THEN /\ Finish(t, Thrown("store"))
          /\ UNCHANGED loc
     ELSE /\ loc' = [loc EXCEPT ![t].value.stats.skillLevelCount = groupBySkill(store),
                                ![t].fetched = TRUE,
                                ![t].calls = @ \ {"skillLevelStats"}]
          /\ UNCHANGED <<pc, res>>
  /\ UNCHANGED <<store, cache, cacheUp, redis, op, pend, lastWrite, swept>>

\* Promise.all member: the $avg aggregation of rating
getCourseStats_avgRating(t) ==
  /\ pc[t] = "getCourseStats_query"
  /\ "avgRating" \in loc[t].calls
  /\ \E storeUp \in BOOLEAN : IF ~storeUp
     THEN /\ Finish(t, Thrown("store"))
          /\ UNCHANGED loc
     ELSE /\ loc' = [loc EXCEPT ![t].value.stats.averageRating = averageRating(store),
                                ![t].fetched = TRUE,
                                ![t].calls = @ \ {"avgRating"}]
          /\ UNCHANGED <<pc, res>>
  /\ UNCHANGED <<store, cache, cacheUp, redis, op, pend, lastWrite, swept>>

\* await redisService.set(cacheKey, JSON.stringify(stats), 900)
getCourseStats_set(t) ==
  /\ pc[t] = "getCourseStats_query"
  /\ loc[t].calls = {}
  /\ LET r == redisSet(statsKey, JSONstringify(loc[t].value), STATS_TTL, loc[t].stale) IN
       IF r.outcome = "throw"
       THEN /\ Finish(t, Thrown("cache"))
            /\ UNCHANGED <<cache, swept>>
       ELSE /\ cache' = r.cache
            /\ swept' = IF r.outcome = "true" THEN swept \ {statsKey} ELSE swept
            /\ Finish(t, Ok(loc[t].value))
  /\ loc' = [loc EXCEPT ![t].fetched = FALSE]
  /\ UNCHANGED <<store, cacheUp, redis, op, pend, lastWrite>>

-----------------------------------------------------------------------------
(* CourseService.bulkInsertCourses *)

\* the batches the model inserts
Batches ==
  { << NewDoc("cs101", 42, "beginner"), NewDoc("stats", 30, "advanced") >>,
    << NewDoc("stats", 42, "advanced") >> }

OneBatch == { << NewDoc("cs101", 42, "beginner") >> }

\* the batches of the writes: one of them holds a document the schema
\* refuses
WriteBatches == Batches \cup { << NewDoc("cs101", 51, "beginner") >> }

\* Course.insertMany(docs, { ordered: false }): a document the schema's
\* validators refuse is left out, every other document whose course_id is
\* not yet in the collection is inserted, the others are write errors of
\* code 11000
RECURSIVE insertMany(_, _)
insertMany(s, docs) ==
  IF docs = <<>> THEN [store |-> s, inserted |-> {}, writeErrors |-> 0]
  ELSE LET d == Head(docs) IN
         IF ~SchemaValid(d.rating, d.skill_level) THEN insertMany(s, Tail(docs))
         ELSE IF d.course_id \in DOMAIN s
         THEN LET rest == insertMany(s, Tail(docs)) IN
                [rest EXCEPT !.writeErrors = @ + 1]
         ELSE LET rest == insertMany(Put(s, d.course_id,
                                         [rating |-> d.rating, skill_level |-> d.skill_level]),
                                     Tail(docs)) IN
                [rest EXCEPT !.inserted = @ \cup {d.course_id}]

bulkInsertCourses(t, courses) ==
  /\ pc[t] = "idle"
  /\ pc' = [pc EXCEPT ![t] = "bulkInsertCourses_insertMany"]
  /\ op' = [op EXCEPT ![t] = [NoOp EXCEPT !.name = "bulkInsertCourses", !.rows = courses]]
  /\ loc' = [loc EXCEPT ![t] = [Loc0 EXCEPT !.before = DOMAIN cache]]
  /\ UNCHANGED <<store, cache, cacheUp, redis, res, pend, lastWrite, swept>>

\* try { insertMany } catch (11000) { counts }, any other error is
\* rethrown; then invalidateSearchCaches()
bulkInsertCourses_insertMany(t) ==
  /\ pc[t] = "bulkInsertCourses_insertMany"
  /\ \E storeUp \in BOOLEAN : IF ~storeUp
     THEN /\ Finish(t, Thrown("store"))
          /\ UNCHANGED <<store, cache, loc, pend, lastWrite, swept>>
     ELSE LET r == insertMany(store, op[t].rows)
              insertedCount == IF r.writeErrors = 0 THEN Cardinality(r.inserted)
                               ELSE Len(op[t].rows) - r.writeErrors
          IN /\ Mutation(t, r.store, r.inserted, "bulkInsert",
                         [loc[t] EXCEPT !.ret = [Status("ok") EXCEPT
                                                   !.inserted = insertedCount,
                                                   !.duplicates = r.writeErrors]])
             /\ pc' = [pc EXCEPT ![t] = "inval"]
             /\ pend' = [pend EXCEPT ![t] = invalidateSearchCaches]
             /\ UNCHANGED res
  /\ UNCHANGED <<cacheUp, redis, op>>

-----------------------------------------------------------------------------
(* Request handlers: authorization *)

\* a request carries the token of an admin, the token of another user, a
\* token that does not verify, or no token
Tokens == {"admin", "user", "invalid", "none"}

\* isAuthenticated(request) without isAdmin(user)
AdminRequest_authenticated(token) == token \in {"admin", "user"}

\* isAuthenticated(request) and isAdmin(user): the request carries a
\* token that verifies and whose role is 'admin'
AdminRequest(token) == token = "admin"

\* createSuccessResponse(data)
SuccessResponse(doc) == Payload("response", <<doc>>, 1, NoPagination, NoStats)

Http(status) == Status(status)

-----------------------------------------------------------------------------
(* PUT /courses/{id} and DELETE /courses/{id} *)

\* the rating rule with both bounds excluded
UpdateSchemaValid_open(rating) == rating > 0 /\ rating < 50

\* CourseUpdateSchema: rating z.number().min(0).max(5)
UpdateSchemaValid(rating) == rating >= 0 /\ rating <= 50

\* validateRequest that reports no message for a failed parse
validateRequest_noErrors(rating) ==
  [success |-> UpdateSchemaValid(rating), errors |-> <<>>, threw |-> FALSE]

\* validateRequest(CourseUpdateSchema, body): schema.parse(data) inside
\* try; a ZodError is turned into one `${path}: ${message}` per issue,
\* any other error into ['Validation failed']
validateRequest(rating) ==
  IF UpdateSchemaValid(rating)
  THEN [success |-> TRUE, errors |-> <<>>, threw |-> FALSE]
  ELSE [success |-> FALSE,
        errors |-> IF rating < 0
                   THEN <<"rating: Number must be greater than or equal to 0">>
                   ELSE <<"rating: Number must be less than or equal to 5">>,
        threw |-> FALSE]

\* Promise.all([del(`course:${courseId}`), flushPattern('search:*'),
\*              flushPattern('courses:*')])
handlerInvalidation(courseId) ==
  {DelCall(courseKey(courseId)), FlushCall("search"), FlushCall("courses")}

PUT(t, courseId, rating, token) ==
  /\ pc[t] = "idle"
  /\ pc' = [pc EXCEPT ![t] = "PUT_findOneAndUpdate"]
  /\ op' = [op EXCEPT ![t] = [NoOp EXCEPT !.name = "PUT", !.id = courseId,
                                          !.rating = rating, !.token = token]]
  /\ loc' = [loc EXCEPT ![t] = [Loc0 EXCEPT !.before = DOMAIN cache]]
  /\ UNCHANGED <<store, cache, cacheUp, redis, res, pend, lastWrite, swept>>

\* the admin check, validateRequest(CourseUpdateSchema, body), then
\* Course.findOneAndUpdate; 404 when no course matches, else the
\* invalidation and 200; an exception is answered 500
PUT_findOneAndUpdate(t) ==
  /\ pc[t] = "PUT_findOneAndUpdate"
  /\ \E storeUp \in BOOLEAN :
       LET newStore == [store EXCEPT ![op[t].id].rating = op[t].rating] IN
       IF ~AdminRequest(op[t].token)
       THEN /\ Finish(t, Http("401"))
            /\ UNCHANGED <<store, cache, loc, pend, lastWrite, swept>>
       ELSE IF ~validateRequest(op[t].rating).success
       THEN /\ Finish(t, [Http("400") EXCEPT !.error = "Validation failed",
                                             !.details = validateRequest(op[t].rating).errors])
            /\ UNCHANGED <<store, cache, loc, pend, lastWrite, swept>>
       ELSE IF ~storeUp \/ ~RatingValid(op[t].rating)
       THEN /\ Finish(t, Http("500"))
            /\ UNCHANGED <<store, cache, loc, pend, lastWrite, swept>>
       ELSE IF op[t].id \notin DOMAIN store
       THEN /\ Finish(t, Http("404"))
            /\ UNCHANGED <<store, cache, loc, pend, lastWrite, swept>>
       ELSE /\ Mutation(t, newStore, {op[t].id}, "PUT",
                        [loc[t] EXCEPT !.ret =
                           [Http("200") EXCEPT !.value =
                              SuccessResponse(Doc(newStore, op[t].id))]])
            /\ pc' = [pc EXCEPT ![t] = "inval"]
            /\ pend' = [pend EXCEPT ![t] = handlerInvalidation(op[t].id)]
            /\ UNCHANGED res
  /\ UNCHANGED <<cacheUp, redis, op>>

DELETE(t, courseId, token) ==
  /\ pc[t] = "idle"
  /\ pc' = [pc EXCEPT ![t] = "DELETE_findOneAndDelete"]
  /\ op' = [op EXCEPT ![t] = [NoOp EXCEPT !.name = "DELETE", !.id = courseId,
                                          !.token = token]]
  /\ loc' = [loc EXCEPT ![t] = [Loc0 EXCEPT !.before = DOMAIN cache]]
  /\ UNCHANGED <<store, cache, cacheUp, redis, res, pend, lastWrite, swept>>

\* the admin check, then Course.findOneAndDelete; 404 when no course
\* matches, else the invalidation and 200; an exception is answered 500
DELETE_findOneAndDelete(t) ==
  /\ pc[t] = "DELETE_findOneAndDelete"
  /\ \E storeUp \in BOOLEAN :
       IF ~AdminRequest(op[t].token)
       THEN /\ Finish(t, Http("401"))
            /\ UNCHANGED <<store, cache, loc, pend, lastWrite, swept>>
       ELSE IF ~storeUp
       THEN /\ Finish(t, Http("500"))
            /\ UNCHANGED <<store, cache, loc, pend, lastWrite, swept>>
       ELSE IF op[t].id \notin DOMAIN store
       THEN /\ Finish(t, Http("404"))
            /\ UNCHANGED <<store, cache, loc, pend, lastWrite, swept>>
       ELSE /\ Mutation(t, Remove(store, {op[t].id}), {op[t].id}, "DELETE",
                        [loc[t] EXCEPT !.ret = Http("200")])
            /\ pc' = [pc EXCEPT ![t] = "inval"]
            /\ pend' = [pend EXCEPT ![t] = handlerInvalidation(op[t].id)]
            /\ UNCHANGED res
  /\ UNCHANGED <<cacheUp, redis, op>>

-----------------------------------------------------------------------------
(* GeminiService.generateCourseRecommendations *)

\* the longest AI response, in tokens
MaxTextLen == 4

\* an AI response is a sequence of tokens: "[" and "]", "o" an object
\* without a skillLevel, "a" an object whose skillLevel is 'advanced',
\* "n" text that is no JSON
TextTokens == {"[", "]", "o", "a", "n"}

RECURSIVE TextsOfLen(_)
TextsOfLen(n) ==
  IF n = 0 THEN { <<>> }
  ELSE {Append(x, c) : x \in TextsOfLen(n - 1), c \in TextTokens}

AiTexts == UNION {TextsOfLen(n) : n \in 0..MaxTextLen}

\* the nesting depth after the first i tokens
RECURSIVE Depth(_, _)
Depth(text, i) ==
  IF i = 0 THEN 0
  ELSE Depth(text, i - 1) + (CASE text[i] = "[" -> 1 [] text[i] = "]" -> -1 [] OTHER -> 0)

\* JSON.parse accepts the text and yields an array: one opening bracket,
\* values and nested arrays inside it, its closing bracket last
ParsesAsArray(text) ==
  /\ Len(text) >= 2
  /\ \A i \in 1..Len(text) : text[i] # "n"
  /\ \A i \in 1..(Len(text) - 1) : Depth(text, i) >= 1
  /\ Depth(text, Len(text)) = 0

\* text.match(/\[[\s\S]*\]/): from the first "[" to the last "]"
jsonMatch(text) ==
  LET opens == {i \in 1..Len(text) : text[i] = "["}
      closes == {i \in 1..Len(text) : text[i] = "]"}
  IN IF opens = {} \/ closes = {} THEN <<>>
     ELSE LET first == CHOOSE i \in opens : \A j \in opens : i <= j
              last == CHOOSE i \in closes : \A j \in closes : i >= j
          IN IF first < last THEN SubSeq(text, first, last) ELSE <<>>

\* the elements of the parsed array, in order: an object, or a nested
\* array taken as one element ("o": it has none of the fields)
RECURSIVE Elements(_, _)
Elements(text, i) ==
  IF i >= Len(text) THEN <<>>
  ELSE (IF Depth(text, i - 1) = 1 /\ text[i] # "]"
        THEN << IF text[i] = "[" THEN "o" ELSE text[i] >>
        ELSE <<>>) \o Elements(text, i + 1)

\* getMockRecommendations: mock-1 .. mock-5, each with
\* skillLevel: preferences.skillLevel
getMockRecommendations(skillLevel) ==
  [i \in 1..5 |-> [id |-> <<"mock", i>>, skillLevel |-> skillLevel]]

\* parseAIResponse without its last line: nothing matched, nothing returned
parseAIResponse_noFallback(text, skillLevel) ==
  LET m == jsonMatch(text) IN
    IF m = <<>> THEN [threw |-> FALSE, recs |-> <<>>]
    ELSE IF ~ParsesAsArray(m)
    THEN [threw |-> FALSE, recs |-> getMockRecommendations(skillLevel)]
    ELSE LET courses == Elements(m, 2) IN
           [threw |-> FALSE,
            recs |-> [i \in 1..Len(courses) |->
                        [id |-> <<"gemini", i - 1>>,
                         skillLevel |-> IF courses[i] = "a" THEN "advanced"
                                        ELSE skillLevel]]]

\* parseAIResponse: the courses of the matched array, each with
\* skillLevel: course.skillLevel || preferences.skillLevel; the mock list
\* when nothing matches or JSON.parse throws
parseAIResponse(text, skillLevel) ==
  LET m == jsonMatch(text) IN
    IF m = <<>> \/ ~ParsesAsArray(m)
    THEN [threw |-> FALSE, recs |-> getMockRecommendations(skillLevel)]
    ELSE LET courses == Elements(m, 2) IN
           [threw |-> FALSE,
            recs |-> [i \in 1..Len(courses) |->
                        [id |-> <<"gemini", i - 1>>,
                         skillLevel |-> IF courses[i] = "a" THEN "advanced"
                                        ELSE skillLevel]]]

\* a request for recommendations: the requested skill level, whether the
\* service was constructed with an API key (this.genAI), and what the AI
\* call will do: throw, or respond with a text
generateCourseRecommendations(t, skillLevel, genAI, throws, text) ==
  /\ pc[t] = "idle"
  /\ pc' = [pc EXCEPT ![t] = "generateCourseRecommendations_generateContent"]
  /\ op' = [op EXCEPT ![t] = [NoOp EXCEPT !.name = "generateCourseRecommendations",
                                          !.skill = skillLevel,
                                          !.options = << <<"genAI", genAI>>,
                                                         <<"throws", throws>> >>,
                                          !.rows = text]]
  /\ loc' = [loc EXCEPT ![t] = Loc0]
  /\ UNCHANGED <<store, cache, cacheUp, redis, res, pend, lastWrite, swept>>

\* if (!this.genAI) return the mock list; try { generateContent,
\* response.text(), parseAIResponse } catch { return the mock list }
generateCourseRecommendations_generateContent(t) ==
  /\ pc[t] = "generateCourseRecommendations_generateContent"
  /\ LET parsed == parseAIResponse(op[t].rows, op[t].skill) IN
       IF ~Field(op[t].options, "genAI", FALSE)
            \/ Field(op[t].options, "throws", FALSE) \/ parsed.threw
       THEN Finish(t, [Ok(NullPayload) EXCEPT
                         !.details = getMockRecommendations(op[t].skill)])
       ELSE Finish(t, [Ok(NullPayload) EXCEPT !.details = parsed.recs])
  /\ UNCHANGED <<store, cache, cacheUp, redis, op, loc, pend, lastWrite, swept>>

-----------------------------------------------------------------------------
(* GET /health *)

\* the key the health endpoint probes Redis with
healthKey == Key("health-check", "", <<>>)

\* the healthCheck object: its status and the state of the two services
healthCheck(status, mongodb, redisState) ==
  [Http(status) EXCEPT !.details = << <<"mongodb", mongodb>>, <<"redis", redisState>> >>]

GET_health(t) ==
  /\ pc[t] = "idle"
  /\ pc' = [pc EXCEPT ![t] = "GET_health_dbConnect"]
  /\ op' = [op EXCEPT ![t] = [NoOp EXCEPT !.name = "GET_health"]]
  /\ loc' = [loc EXCEPT ![t] = [Loc0 EXCEPT !.ret = healthCheck("200", "unknown", "unknown")]]
  /\ UNCHANGED <<store, cache, cacheUp, redis, res, pend, lastWrite, swept>>

\* try { await dbConnect(); mongodb = 'connected' }
\* catch { mongodb = 'disconnected'; status = 'degraded' }
GET_health_dbConnect(t) ==
  /\ pc[t] = "GET_health_dbConnect"
  /\ \E storeUp \in BOOLEAN :
       loc' = [loc EXCEPT ![t].ret =
                 IF storeUp THEN healthCheck("200", "connected", "unknown")
                 ELSE healthCheck("503", "disconnected", "unknown")]
  /\ pc' = [pc EXCEPT ![t] = "GET_health_get"]
  /\ UNCHANGED <<store, cache, cacheUp, redis, op, res, pend, lastWrite, swept>>

\* try { await redisService.get('health-check'); redis = 'connected' }
\* catch { redis = 'disconnected' }; the status code is 200 when the
\* status is still 'healthy', else 503
GET_health_get(t) ==
  /\ pc[t] = "GET_health_get"
  /\ LET r == redisGet(healthKey)
         h == loc[t].ret
         redisState == IF r.outcome = "throw" THEN "disconnected" ELSE "connected"
     IN /\ Finish(t, healthCheck(h.status, Field(h.details, "mongodb", "unknown"),
                                 redisState))
        /\ loc' = [loc EXCEPT ![t].getFailed = ~cacheUp]
  /\ UNCHANGED <<store, cache, cacheUp, redis, op, pend, lastWrite, swept>>

-----------------------------------------------------------------------------
(* GET /courses/{id} *)

GET_course(t, courseId) ==
  /\ pc[t] = "idle"
  /\ pc' = [pc EXCEPT ![t] = "GET_course_get"]
  /\ op' = [op EXCEPT ![t] = [NoOp EXCEPT !.name = "GET_course", !.id = courseId]]
  /\ loc' = [loc EXCEPT ![t] = [Loc0 EXCEPT !.after = lastWrite[courseId],
                                            !.ids = {courseId}]]
  /\ lastWrite' = [lastWrite EXCEPT ![courseId] = "none"]
  /\ UNCHANGED <<store, cache, cacheUp, redis, res, pend, swept>>

\* const cachedCourse = await redisService.get(`course:${courseId}`);
\* if (cachedCourse) return { ...JSON.parse(cachedCourse), cached: true }
GET_course_get(t) ==
  /\ pc[t] = "GET_course_get"
  /\ LET r == redisGet(courseKey(op[t].id)) IN
       CASE r.outcome = "throw" ->
              /\ Finish(t, Http("500"))
              /\ UNCHANGED loc
         [] r.outcome = "value" ->
              /\ Finish(t, [Http("200") EXCEPT !.value = JSONparse(r.text), !.hit = TRUE,
                                               !.marker = "true", !.fromStale = r.stale])
              /\ UNCHANGED loc
         [] OTHER ->
              /\ pc' = [pc EXCEPT ![t] = "GET_course_findOne"]
              /\ loc' = [loc EXCEPT ![t].getFailed = ~cacheUp]
              /\ UNCHANGED res
  /\ UNCHANGED <<store, cache, cacheUp, redis, op, pend, lastWrite, swept>>

\* const course = await Course.findOne({ course_id: courseId }).lean();
\* if (!course) 404; const response = createSuccessResponse(course)
GET_course_findOne(t) ==
  /\ pc[t] = "GET_course_findOne"
  /\ \E storeUp \in BOOLEAN : IF ~storeUp
     THEN /\ Finish(t, Http("500"))
          /\ UNCHANGED loc
     ELSE IF op[t].id \notin DOMAIN store
          THEN /\ Finish(t, Http("404"))
               /\ UNCHANGED loc
          ELSE /\ pc' = [pc EXCEPT ![t] = "GET_course_set"]
               /\ loc' = [loc EXCEPT ![t].value = SuccessResponse(Doc(store, op[t].id)),
                                     ![t].fetched = TRUE]
               /\ UNCHANGED res
  /\ UNCHANGED <<store, cache, cacheUp, redis, op, pend, lastWrite, swept>>

\* await redisService.set(cacheKey, JSON.stringify(response), 1800);
\* return NextResponse.json(response)
GET_course_set(t) ==
  /\ pc[t] = "GET_course_set"
  /\ LET r == redisSet(courseKey(op[t].id), JSONstringify(loc[t].value),
                       COURSE_DETAIL, loc[t].stale) IN
       IF r.outcome = "throw"
       THEN /\ Finish(t, Http("500"))
            /\ UNCHANGED <<cache, swept>>
       ELSE /\ cache' = r.cache
            /\ swept' = IF r.outcome = "true" THEN swept \ {courseKey(op[t].id)} ELSE swept
            /\ Finish(t, [Http("200") EXCEPT !.value = loc[t].value])
  /\ loc' = [loc EXCEPT ![t].fetched = FALSE]
  /\ UNCHANGED <<store, cacheUp, redis, op, pend, lastWrite>>

-----------------------------------------------------------------------------
(* POST /courses/upload *)

\* the CSV files the model uploads: their data rows
Uploads ==
  { << NewDoc("cs101", 42, "beginner") >>,
    << NewDoc("cs101", 51, "beginner"), NewDoc("cs101", 30, "beginner") >> }

\* validateCourseData: the row has no validation error
validateCourseData(row) ==
  /\ ~(row.rating < 0 \/ row.rating > 50)
  /\ row.skill_level \in {"beginner", "intermediate", "advanced"}

\* the 'data' handler of parseCSVBuffer keeps a record only
\* if (data.course_id && data.title && data.description && data.category);
\* a data row of the file is its record, course_id "" when one of these
\* four fields is empty
parseCSVBuffer(rows) == SelectSeq(rows, LAMBDA row : row.course_id # "")

\* for (let i = 0; i < csvData.length; i++): the entries pushed to errors,
\* { row: i + 2, course_id, errors }, from index i on (i counted from 1)
RECURSIVE uploadErrors(_, _)
uploadErrors(csvData, i) ==
  IF i > Len(csvData) THEN <<>>
  ELSE (IF validateCourseData(csvData[i]) THEN <<>>
        ELSE << [row |-> (i - 1) + 2, course_id |-> csvData[i].course_id] >>)
         \o uploadErrors(csvData, i + 1)

\* await flushPattern('courses:*'); await flushPattern('search:*')
uploadInvalidation == << {FlushCall("courses")}, {FlushCall("search")} >>

POST_upload(t, rows, token) ==
  /\ pc[t] = "idle"
  /\ pc' = [pc EXCEPT ![t] = "POST_upload_insertMany"]
  /\ op' = [op EXCEPT ![t] = [NoOp EXCEPT !.name = "POST_upload", !.rows = rows,
                                          !.token = token]]
  /\ loc' = [loc EXCEPT ![t] = [Loc0 EXCEPT !.before = DOMAIN cache]]
  /\ UNCHANGED <<store, cache, cacheUp, redis, res, pend, lastWrite, swept>>

\* the admin check, the validation of every row, then, when a row is
\* valid, Course.insertMany(validCourses, { ordered: false }) and the two
\* flushes; an error other than 11000 is answered 500
POST_upload_insertMany(t) ==
  /\ pc[t] = "POST_upload_insertMany"
  /\ \E storeUp \in BOOLEAN :
       LET csvData == parseCSVBuffer(op[t].rows)
           validCourses == SelectSeq(csvData, validateCourseData)
           errors == uploadErrors(csvData, 1)
           r == insertMany(store, validCourses)
           insertedCount == IF r.writeErrors = 0 THEN Cardinality(r.inserted)
                            ELSE Len(validCourses) - r.writeErrors
           counts == [Http("200") EXCEPT !.totalRows = Len(csvData),
                                         !.validCourses = Len(validCourses),
                                         !.errorRows = Len(errors),
                                         !.details = errors]
           summary == [counts EXCEPT !.inserted = insertedCount,
                                     !.duplicates = r.writeErrors]
       IN
       IF ~AdminRequest(op[t].token)
       THEN /\ Finish(t, Http("401"))
            /\ UNCHANGED <<store, cache, loc, pend, lastWrite, swept>>
       ELSE IF csvData = <<>>
       THEN /\ Finish(t, Http("400"))
            /\ UNCHANGED <<store, cache, loc, pend, lastWrite, swept>>
       ELSE IF validCourses = <<>>
       THEN /\ Finish(t, counts)
            /\ UNCHANGED <<store, cache, loc, pend, lastWrite, swept>>
       ELSE IF ~storeUp
       THEN /\ Finish(t, Http("500"))
            /\ UNCHANGED <<store, cache, loc, pend, lastWrite, swept>>
       ELSE /\ Mutation(t, r.store, r.inserted, "upload",
                        [loc[t] EXCEPT !.ret = summary,
                                       !.stages = Tail(uploadInvalidation)])
            /\ pc' = [pc EXCEPT ![t] = "inval"]
            /\ pend' = [pend EXCEPT ![t] = Head(uploadInvalidation)]
            /\ UNCHANGED res
  /\ UNCHANGED <<cacheUp, redis, op>>

-----------------------------------------------------------------------------
(* POST /courses/search: the advanced search *)

\* the filters objects the model searches with
AdvancedFilters == { <<>>, << <<"skill_level", "beginner">> >> }

\* `advanced_search:${JSON.stringify({ query, filters, sort, page, limit })}`
advancedKey(filters) ==
  Key("advanced_search", "",
      << <<"query", "">>, <<"filters", filters>>, <<"sort", "rating:-1">>,
         <<"page", 1>>, <<"limit", 20>> >>)

\* the records the mongoQuery built from the filters matches: a rating
\* filter is $gte, every other non-empty filter is an equality
advancedMatching(s, filters) ==
  {id \in DOMAIN s :
     /\ (HasField(filters, "skill_level") /\ Field(filters, "skill_level", "") # "")
          => s[id].skill_level = Field(filters, "skill_level", "")
     /\ HasField(filters, "rating") => s[id].rating >= Field(filters, "rating", 0)}

\* Course.find(mongoQuery).sort(sort).skip(skip).limit(limit).lean()
advancedFind(s, filters) ==
  SkipLimit(SortByRating(s, advancedMatching(s, filters)), 0, 20)

\* Course.countDocuments(mongoQuery)
advancedCount(s, filters) == Cardinality(advancedMatching(s, filters))

AdvancedResult(courses, totalCount) ==
  Payload("advanced", courses, totalCount, Pagination(1, 20, totalCount), NoStats)

POST_search(t, filters) ==
  /\ pc[t] = "idle"
  /\ pc' = [pc EXCEPT ![t] = "POST_search_get"]
  /\ op' = [op EXCEPT ![t] = [NoOp EXCEPT !.name = "POST_search", !.options = filters]]
  /\ loc' = [loc EXCEPT ![t] = [Loc0 EXCEPT !.ids = CourseIds]]
  /\ UNCHANGED <<store, cache, cacheUp, redis, res, pend, lastWrite, swept>>

\* const cachedResult = await redisService.get(cacheKey);
\* if (cachedResult) return NextResponse.json(JSON.parse(cachedResult))
POST_search_get(t) ==
  /\ pc[t] = "POST_search_get"
  /\ LET r == redisGet(advancedKey(op[t].options)) IN
       CASE r.outcome = "throw" ->
              /\ Finish(t, Http("500"))
              /\ UNCHANGED loc
         [] r.outcome = "value" ->
              /\ Finish(t, [Http("200") EXCEPT !.value = JSONparse(r.text), !.hit = TRUE,
                                               !.fromStale = r.stale])
              /\ UNCHANGED loc
         [] OTHER ->
              /\ pc' = [pc EXCEPT ![t] = "POST_search_query"]
              /\ loc' = [loc EXCEPT ![t].getFailed = ~cacheUp,
                                    ![t].calls = {"find", "countDocuments"}]
              /\ UNCHANGED res
  /\ UNCHANGED <<store, cache, cacheUp, redis, op, pend, lastWrite, swept>>

\* Promise.all member: Course.find(...)
POST_search_find(t) ==
  /\ pc[t] = "POST_search_query"
  /\ "find" \in loc[t].calls
  /\ \E storeUp \in BOOLEAN : IF ~storeUp
     THEN /\ Finish(t, Http("500"))
          /\ UNCHANGED loc
     ELSE /\ loc' = [loc EXCEPT ![t].value.courses = advancedFind(store, op[t].options),
                                ![t].fetched = TRUE,
                                ![t].calls = @ \ {"find"}]
          /\ UNCHANGED <<pc, res>>
  /\ UNCHANGED <<store, cache, cacheUp, redis, op, pend, lastWrite, swept>>

\* Promise.all member: Course.countDocuments(mongoQuery)
POST_search_countDocuments(t) ==
  /\ pc[t] = "POST_search_query"
  /\ "countDocuments" \in loc[t].calls
  /\ \E storeUp \in BOOLEAN : IF ~storeUp
     THEN /\ Finish(t, Http("500"))
          /\ UNCHANGED loc
     ELSE /\ loc' = [loc EXCEPT ![t].value.totalCount = advancedCount(store, op[t].options),
                                ![t].fetched = TRUE,
                                ![t].calls = @ \ {"countDocuments"}]
          /\ UNCHANGED <<pc, res>>
  /\ UNCHANGED <<store, cache, cacheUp, redis, op, pend, lastWrite, swept>>

\* await redisService.set(cacheKey, JSON.stringify(result), 300)
POST_search_set(t) ==
  /\ pc[t] = "POST_search_query"
  /\ loc[t].calls = {}
  /\ LET result == AdvancedResult(loc[t].value.courses, loc[t].value.totalCount)
         r == redisSet(advancedKey(op[t].options), JSONstringify(result),
                       ADVANCED_TTL, loc[t].stale)
     IN IF r.outcome = "throw"
        THEN /\ Finish(t, Http("500"))
             /\ UNCHANGED cache
        ELSE /\ cache' = r.cache
             /\ Finish(t, [Http("200") EXCEPT !.value = result])
  /\ loc' = [loc EXCEPT ![t].fetched = FALSE]
  /\ UNCHANGED <<store, cacheUp, redis, op, pend, lastWrite, swept>>

-----------------------------------------------------------------------------
(* GET /courses/upload: the plain listing *)

\* the skill_level parameters the model lists with ("" when absent)
ListSkills == {"", "beginner"}

\* `courses:list:${JSON.stringify(query)}:${page}:${limit}`
listKey(skill, page, limit) ==
  Key("courses", "list",
      << <<"query", IF skill = "" THEN <<>> ELSE << <<"skill_level", skill>> >> >>,
         <<"page", page>>, <<"limit", limit>> >>)

\* Course.find(query).sort({ createdAt: -1 }).skip(skip).limit(limit).lean()
\* (the order of creation is the order of IdOrder)
RECURSIVE SortByCreated(_, _, _)
SortByCreated(s, ids, i) ==
  IF i = 0 THEN <<>>
  ELSE (IF IdOrder[i] \in ids THEN <<Doc(s, IdOrder[i])>> ELSE <<>>)
         \o SortByCreated(s, ids, i - 1)

listFind(s, skill, page, limit) ==
  SkipLimit(SortByCreated(s, {id \in DOMAIN s : skill # "" => s[id].skill_level = skill},
                          Len(IdOrder)),
            (page - 1) * limit, limit)

\* Course.countDocuments(query)
listCount(s, skill) ==
  Cardinality({id \in DOMAIN s : skill # "" => s[id].skill_level = skill})

ListResult(page, limit, courses, totalCount) ==
  Payload("list", courses, totalCount, Pagination(page, limit, totalCount), NoStats)

\* const page = parseInt(searchParams.get('page') || '1')
listPage(options) == Field(options, "page", 1)

\* const limit = parseInt(searchParams.get('limit') || '20')
listLimit(options) == Field(options, "limit", 20)

\* a listing request that carries the page and limit parameters
GET_list_page(t, skill, token, page, limit) ==
  /\ pc[t] = "idle"
  /\ pc' = [pc EXCEPT ![t] = "GET_list_get"]
  /\ op' = [op EXCEPT ![t] = [NoOp EXCEPT !.name = "GET_list", !.skill = skill,
                                          !.token = token,
                                          !.options = << <<"page", page>>,
                                                         <<"limit", limit>> >>]]
  /\ loc' = [loc EXCEPT ![t] = [Loc0 EXCEPT !.ids = CourseIds]]
  /\ UNCHANGED <<store, cache, cacheUp, redis, res, pend, lastWrite, swept>>

\* a listing request without page and limit parameters
GET_list(t, skill, token) ==
  /\ pc[t] = "idle"
  /\ pc' = [pc EXCEPT ![t] = "GET_list_get"]
  /\ op' = [op EXCEPT ![t] = [NoOp EXCEPT !.name = "GET_list", !.skill = skill,
                                          !.token = token]]
  /\ loc' = [loc EXCEPT ![t] = [Loc0 EXCEPT !.ids = CourseIds]]
  /\ UNCHANGED <<store, cache, cacheUp, redis, res, pend, lastWrite, swept>>

\* the admin check, then const cachedResult = await redisService.get(cacheKey);
\* if (cachedResult) return NextResponse.json(JSON.parse(cachedResult))
GET_list_get(t) ==
  /\ pc[t] = "GET_list_get"
  /\ LET r == redisGet(listKey(op[t].skill, listPage(op[t].options), listLimit(op[t].options))) IN
       CASE ~AdminRequest(op[t].token) ->
              /\ Finish(t, Http("401"))
              /\ UNCHANGED loc
         [] AdminRequest(op[t].token) /\ r.outcome = "throw" ->
              /\ Finish(t, Http("500"))
              /\ UNCHANGED loc
         [] AdminRequest(op[t].token) /\ r.outcome = "value" ->
              /\ Finish(t, [Http("200") EXCEPT !.value = JSONparse(r.text), !.hit = TRUE,
                                               !.fromStale = r.stale])
              /\ UNCHANGED loc
         [] OTHER ->
              /\ pc' = [pc EXCEPT ![t] = "GET_list_query"]
              /\ loc' = [loc EXCEPT ![t].getFailed = ~cacheUp,
                                    ![t].calls = {"find", "countDocuments"}]
              /\ UNCHANGED res
  /\ UNCHANGED <<store, cache, cacheUp, redis, op, pend, lastWrite, swept>>

\* Promise.all member: Course.find(query)...
GET_list_find(t) ==
  /\ pc[t] = "GET_list_query"
  /\ "find" \in loc[t].calls
  /\ \E storeUp \in BOOLEAN : IF ~storeUp
     THEN /\ Finish(t, Http("500"))
          /\ UNCHANGED loc
     ELSE /\ loc' = [loc EXCEPT ![t].value.courses =
                                  listFind(store, op[t].skill, listPage(op[t].options),
                                           listLimit(op[t].options)),
                                ![t].fetched = TRUE,
                                ![t].calls = @ \ {"find"}]
          /\ UNCHANGED <<pc, res>>
  /\ UNCHANGED <<store, cache, cacheUp, redis, op, pend, lastWrite, swept>>

\* Promise.all member: Course.countDocuments(query)
GET_list_countDocuments(t) ==
  /\ pc[t] = "GET_list_query"
  /\ "countDocuments" \in loc[t].calls
  /\ \E storeUp \in BOOLEAN : IF ~storeUp
     THEN /\ Finish(t, Http("500"))
          /\ UNCHANGED loc
     ELSE /\ loc' = [loc EXCEPT ![t].value.totalCount = listCount(store, op[t].skill),
                                ![t].fetched = TRUE,
                                ![t].calls = @ \ {"countDocuments"}]
          /\ UNCHANGED <<pc, res>>
  /\ UNCHANGED <<store, cache, cacheUp, redis, op, pend, lastWrite, swept>>

\* await redisService.set(cacheKey, JSON.stringify(result), 300)
GET_list_set(t) ==
  /\ pc[t] = "GET_list_query"
  /\ loc[t].calls = {}
  /\ LET page == listPage(op[t].options)
         limit == listLimit(op[t].options)
         result == ListResult(page, limit, loc[t].value.courses, loc[t].value.totalCount)
         r == redisSet(listKey(op[t].skill, page, limit), JSONstringify(result),
                       COURSE_LIST, loc[t].stale)
     IN IF r.outcome = "throw"
        THEN /\ Finish(t, Http("500"))
             /\ UNCHANGED cache
        ELSE /\ cache' = r.cache
             /\ Finish(t, [Http("200") EXCEPT !.value = result])
  /\ loc' = [loc EXCEPT ![t].fetched = FALSE]
  /\ UNCHANGED <<store, cacheUp, redis, op, pend, lastWrite, swept>>

-----------------------------------------------------------------------------
(* Environment: outages and the passing of time *)

CacheOutage ==
  /\ cacheUp
  /\ cacheUp' = FALSE
  /\ UNCHANGED <<store, cache, redis, pc, op, loc, res, pend, lastWrite, swept>>

CacheRecover ==
  /\ ~cacheUp
  /\ cacheUp' = TRUE
  /\ UNCHANGED <<store, cache, redis, pc, op, loc, res, pend, lastWrite, swept>>

\* the expiry of an entry written by setEx has elapsed
Expire(key) ==
  /\ key \in DOMAIN cache
  /\ cache[key].ttl > 0
  /\ cache' = Remove(cache, {key})
  /\ UNCHANGED <<store, cacheUp, redis, pc, op, loc, res, pend, lastWrite, swept>>

\* the clock advances by the shortest expiry: every entry written with
\* an expiry grows older, and Redis drops it once its expiry has elapsed
TickSeconds == COURSE_LIST

Tick ==
  /\ cache' = [k \in {x \in DOMAIN cache :
                        cache[x].ttl > 0 => cache[x].age + TickSeconds < cache[x].ttl} |->
                IF cache[k].ttl > 0
                THEN [cache[k] EXCEPT !.age = @ + TickSeconds]
                ELSE cache[k]]
  /\ UNCHANGED <<store, cacheUp, redis, pc, op, loc, res, pend, lastWrite, swept>>

-----------------------------------------------------------------------------
(* Specifications *)

\* a request to the Course Service arrives, its arguments drawn from
\* the course ids, options objects and batches given
ServiceCall(t, ids, options, batches) ==
  \/ \E id \in ids : getCourseById(t, id)
  \/ \E o \in options : searchCourses(t, o)
  \/ getCourseStats(t)
  \/ \E d \in NewCourses : d.course_id \in ids
                           /\ createCourse(t, d.course_id, d.rating, d.skill_level)
  \/ \E id \in ids, r \in InputRatings : updateCourse(t, id, r)
  \/ \E id \in ids : deleteCourse(t, id)
  \/ \E b \in batches : bulkInsertCourses(t, b)

\* a running getCourseById makes its next call
GetByIdStep(t) ==
  \/ getCourseById_get(t)
  \/ getCourseById_findOne(t)
  \/ getCourseById_set(t)

\* a running searchCourses makes its next call
SearchStep(t) ==
  \/ searchCourses_get(t)
  \/ searchCourses_find(t)
  \/ searchCourses_countDocuments(t)
  \/ searchCourses_set(t)

\* a running getCourseStats makes its next call
StatsStep(t) ==
  \/ getCourseStats_get(t)
  \/ getCourseStats_countDocuments(t)
  \/ getCourseStats_skillLevelStats(t)
  \/ getCourseStats_avgRating(t)
  \/ getCourseStats_set(t)

\* a running write of the Course Service makes its store call
WriteStep(t) ==
  \/ createCourse_save(t)
  \/ updateCourse_findOneAndUpdate(t)
  \/ deleteCourse_findOneAndDelete(t)
  \/ bulkInsertCourses_insertMany(t)

\* a running invalidation makes its next cache call; a finished request
\* hands its result to the caller
InvalidateStep(t) ==
  \/ RedisDel(t)
  \/ FlushPatternKeys(t)
  \/ FlushPatternDel(t)
  \/ InvalidateDone(t)
  \/ Return(t)

\* a running Course Service operation makes its next call
ServiceStep(t) ==
  \/ GetByIdStep(t)
  \/ SearchStep(t)
  \/ StatsStep(t)
  \/ WriteStep(t)
  \/ InvalidateStep(t)

\* a write request to a route handler arrives
HandlerWrite(t, ids) ==
  \/ \E id \in ids, r \in InputRatings, k \in Tokens : PUT(t, id, r, k)
  \/ \E id \in ids, k \in Tokens : DELETE(t, id, k)
  \/ \E f \in Uploads, k \in Tokens : POST_upload(t, f, k)

\* a running write handler makes its store call
HandlerWriteStep(t) ==
  \/ PUT_findOneAndUpdate(t)
  \/ DELETE_findOneAndDelete(t)
  \/ POST_upload_insertMany(t)

\* an advanced search request arrives
AdvancedCall(t) == \E f \in AdvancedFilters : POST_search(t, f)

\* a running advanced search makes its next call
AdvancedStep(t) ==
  \/ POST_search_get(t)
  \/ POST_search_find(t)
  \/ POST_search_countDocuments(t)
  \/ POST_search_set(t)

\* a listing request arrives
ListCall(t) == \E s \in ListSkills, k \in Tokens : GET_list(t, s, k)

\* a running listing makes its next call
ListStep(t) ==
  \/ GET_list_get(t)
  \/ GET_list_find(t)
  \/ GET_list_countDocuments(t)
  \/ GET_list_set(t)

CacheFaults == CacheOutage \/ CacheRecover
Expiry == \E key \in DOMAIN cache : Expire(key)

\* service calls one after another, the cache available
NextSeq ==
  \/ \E t \in SeqTasks : AllIdle /\ ServiceCall(t, CourseIds, SearchOptions, Batches)
  \/ \E t \in Tasks : ServiceStep(t)
  \/ Expiry

SpecSeq == Init /\ [][NextSeq]_vars

\* service calls one after another, the cache failing on any of its calls
NextSeqFail ==
  \/ \E t \in SeqTasks : AllIdle /\ ServiceCall(t, OneId, OneOption, OneBatch)
  \/ \E t \in Tasks : ServiceStep(t)
  \/ CacheFaults
  \/ Expiry

SpecSeqFail == Init /\ [][NextSeqFail]_vars

\* service calls and listing requests one after another, the cache available
NextList ==
  \/ \E t \in SeqTasks : AllIdle /\ ServiceCall(t, OneId, OneOption, OneBatch)
  \/ \E t \in SeqTasks : AllIdle /\ ListCall(t)
  \/ \E t \in Tasks : ServiceStep(t)
  \/ \E t \in Tasks : ListStep(t)
  \/ Expiry

SpecList == Init /\ [][NextList]_vars

\* HTTP requests and the reads of the Course Service one after another,
\* the cache available
NextHttp ==
  \/ \E t \in SeqTasks : AllIdle /\ HandlerWrite(t, OneId)
  \/ \E t \in SeqTasks : AllIdle /\ AdvancedCall(t)
  \/ \E t \in SeqTasks : AllIdle /\ ListCall(t)
  \/ \E t \in SeqTasks : AllIdle /\ getCourseStats(t)
  \/ \E t \in Tasks : HandlerWriteStep(t)
  \/ \E t \in Tasks : AdvancedStep(t)
  \/ \E t \in Tasks : ListStep(t)
  \/ \E t \in Tasks : StatsStep(t)
  \/ \E t \in Tasks : InvalidateStep(t)
  \/ Expiry

SpecHttp == Init /\ [][NextHttp]_vars

\* the requests that run concurrently: task 1 serves reads, task 2 writes
Readers == {1}
Writers == {2}

ReadCall(t, ids, options) ==
  \/ \E id \in ids : getCourseById(t, id)
  \/ \E o \in options : searchCourses(t, o)

WriteCall(t, ids, batches) ==
  \/ \E d \in NewCourses : d.course_id \in ids
                           /\ createCourse(t, d.course_id, d.rating, d.skill_level)
  \/ \E id \in ids, r \in InputRatings : updateCourse(t, id, r)
  \/ \E id \in ids : deleteCourse(t, id)
  \/ \E b \in batches : bulkInsertCourses(t, b)

\* a read and a write of the Course Service interleaved at every store
\* and cache call, the cache available
NextConc ==
  \/ \E t \in Readers : ReadCall(t, OneId, OneOption)
  \/ \E t \in Writers : WriteCall(t, OneId, OneBatch)
  \/ \E t \in Tasks : GetByIdStep(t)
  \/ \E t \in Tasks : SearchStep(t)
  \/ \E t \in Tasks : WriteStep(t)
  \/ \E t \in Tasks : InvalidateStep(t)
  \/ Expiry

SpecConc == Init /\ [][NextConc]_vars

\* every write of the service and of the handlers, and the reads of a
\* record, of the statistics and of the listing, one after another, the
\* cache available
NextWrite ==
  \/ \E t \in SeqTasks : AllIdle /\ (\E id \in OneId : getCourseById(t, id))
  \/ \E t \in SeqTasks : AllIdle /\ getCourseStats(t)
  \/ \E t \in SeqTasks : AllIdle /\ ListCall(t)
  \/ \E t \in SeqTasks : AllIdle /\ WriteCall(t, OneId, WriteBatches)
  \/ \E t \in SeqTasks : AllIdle /\ HandlerWrite(t, OneId)
  \/ \E t \in Tasks : GetByIdStep(t)
  \/ \E t \in Tasks : StatsStep(t)
  \/ \E t \in Tasks : ListStep(t)
  \/ \E t \in Tasks : WriteStep(t)
  \/ \E t \in Tasks : HandlerWriteStep(t)
  \/ \E t \in Tasks : InvalidateStep(t)
  \/ Expiry

SpecWrite == Init /\ [][NextWrite]_vars

\* the ratings on both sides of the two bounds, in tenths: -0.1, 0, 5, 5.1
BoundaryRatings == {MinRating - 1, MinRating, MaxRating, MaxRating + 1}

\* the one-row CSV files with those ratings
BoundaryUploads == { << NewDoc("cs101", r, "beginner") >> : r \in BoundaryRatings }

\* the write handlers called one after another with ratings at the
\* bounds, and the listing
NextValidate ==
  \/ \E t \in SeqTasks : AllIdle /\ ListCall(t)
  \/ \E t \in SeqTasks : AllIdle
        /\ (\E id \in OneId, r \in BoundaryRatings, k \in Tokens : PUT(t, id, r, k))
  \/ \E t \in SeqTasks : AllIdle /\ (\E id \in OneId, k \in Tokens : DELETE(t, id, k))
  \/ \E t \in SeqTasks : AllIdle
        /\ (\E f \in BoundaryUploads, k \in Tokens : POST_upload(t, f, k))
  \/ \E t \in Tasks : ListStep(t)
  \/ \E t \in Tasks : HandlerWriteStep(t)
  \/ \E t \in Tasks : InvalidateStep(t)

SpecValidate == Init /\ [][NextValidate]_vars

\* the reads of the four tiers and the writes of the service one after
\* another, the cache available, with the clock
NextTtl ==
  \/ \E t \in SeqTasks : AllIdle /\ ServiceCall(t, OneId, OneOption, OneBatch)
  \/ \E t \in SeqTasks : AllIdle /\ ListCall(t)
  \/ \E t \in Tasks : ServiceStep(t)
  \/ \E t \in Tasks : ListStep(t)
  \/ Tick

SpecTtl == Init /\ [][NextTtl]_vars

\* a search interleaved at every call with the creation, the update and
\* the deletion of a record, the cache available, with a clock that keeps
\* advancing
NextTime ==
  \/ \E t \in Readers : \E o \in OneOption : searchCourses(t, o)
  \/ \E t \in Writers : \E id \in OneId, r \in InputRatings : updateCourse(t, id, r)
  \/ \E t \in Writers : \E d \in NewCourses :
       d.course_id \in OneId /\ createCourse(t, d.course_id, d.rating, d.skill_level)
  \/ \E t \in Writers : \E id \in OneId : deleteCourse(t, id)
  \/ \E t \in Tasks : SearchStep(t)
  \/ \E t \in Tasks : createCourse_save(t)
  \/ \E t \in Tasks : updateCourse_findOneAndUpdate(t)
  \/ \E t \in Tasks : deleteCourse_findOneAndDelete(t)
  \/ \E t \in Tasks : InvalidateStep(t)
  \/ Tick

SpecTime == Init /\ [][NextTime]_vars /\ WF_vars(Tick)

\* the record the overlapping updates are about
RaceIds == {"stats"}
RaceCourses == {NewDoc(id, 42, "advanced") : id \in RaceIds}
OneCourse == {NewDoc(id, 42, "beginner") : id \in OneId}

\* no read is running
NoReader == \A u \in Tasks : pc[u] = "idle" \/ op[u].name = "updateCourse"

\* creations and reads one after another, and updates of the service
\* interleaved with each other at every call, the cache available
NextRace ==
  \/ \E t \in SeqTasks : AllIdle /\ (\E d \in RaceCourses :
                                       createCourse(t, d.course_id, d.rating, d.skill_level))
  \/ \E t \in SeqTasks : AllIdle /\ (\E id \in RaceIds : getCourseById(t, id))
  \/ \E t \in SeqTasks : AllIdle /\ getCourseStats(t)
  \/ \E t \in SeqTasks : AllIdle /\ (\E o \in OneOption : searchCourses(t, o))
  \/ \E t \in Tasks : NoReader /\ pc[t] = "idle"
        /\ (\E id \in RaceIds, r \in InputRatings : updateCourse(t, id, r))
  \/ \E t \in Tasks : createCourse_save(t)
  \/ \E t \in Tasks : GetByIdStep(t)
  \/ \E t \in Tasks : StatsStep(t)
  \/ \E t \in Tasks : SearchStep(t)
  \/ \E t \in Tasks : updateCourse_findOneAndUpdate(t)
  \/ \E t \in Tasks : InvalidateStep(t)

SpecRace == Init /\ [][NextRace]_vars

\* searches of any page and page size and writes of the service, one
\* after another, the cache available
NextPage ==
  \/ \E t \in SeqTasks : AllIdle
        /\ (\E o \in PageOptions \cup DefaultOptions : searchCourses(t, o))
  \/ \E t \in SeqTasks : AllIdle /\ (\E d \in NewCourses :
        d.course_id \in OneId /\ createCourse(t, d.course_id, d.rating, d.skill_level))
  \/ \E t \in SeqTasks : AllIdle
        /\ (\E id \in OneId, r \in InputRatings : updateCourse(t, id, r))
  \/ \E t \in Tasks : SearchStep(t)
  \/ \E t \in Tasks : createCourse_save(t)
  \/ \E t \in Tasks : updateCourse_findOneAndUpdate(t)
  \/ \E t \in Tasks : InvalidateStep(t)

SpecPage == Init /\ [][NextPage]_vars

\* a running cache operation makes its next step
RedisServiceStep(t) ==
  \/ connect(t)
  \/ connect_resolved(t)
  \/ connect_rejected(t)
  \/ command(t)
  \/ Return(t)

\* cache operations interleaved with each other and with the events of
\* the clients
NextConn ==
  \/ \E t \in Tasks : RedisService_call(t)
  \/ \E t \in Tasks : RedisServiceStep(t)
  \/ \E c \in ClientIds : clientConnectEvent(c)
  \/ \E c \in ClientIds : clientErrorEvent(c, 2)
  \/ disconnect

SpecConn == Init /\ [][NextConn]_vars

\* cache operations one after another while the clients keep failing to
\* reconnect
NextBackoff ==
  \/ \E t \in SeqTasks : AllIdle /\ RedisService_call(t)
  \/ \E t \in Tasks : RedisServiceStep(t)
  \/ \E c \in ClientIds : clientConnectEvent(c)
  \/ \E c \in ClientIds : clientErrorEvent(c, MaxRetries)

SpecBackoff == Init /\ [][NextBackoff]_vars

\* a running GET /courses/{id} makes its next call
GetCourseStep(t) ==
  \/ GET_course_get(t)
  \/ GET_course_findOne(t)
  \/ GET_course_set(t)

\* the two reads of a course record and the creation, update and deletion
\* of records; a call starts when no other call is running, the cache
\* available
NextDetail ==
  \/ \E t \in Readers \cup Writers : Quiescent /\ (\E id \in OneId : getCourseById(t, id))
  \/ \E t \in Readers \cup Writers : Quiescent /\ (\E id \in OneId : GET_course(t, id))
  \/ \E t \in SeqTasks : Quiescent /\ (\E d \in OneCourse :
        createCourse(t, d.course_id, d.rating, d.skill_level))
  \/ \E t \in SeqTasks : Quiescent
        /\ (\E id \in OneId, r \in InputRatings : updateCourse(t, id, r))
  \/ \E t \in SeqTasks : Quiescent /\ (\E id \in OneId : deleteCourse(t, id))
  \/ \E t \in SeqTasks : Quiescent /\ (\E o \in OneOption : searchCourses(t, o))
  \/ \E t \in Tasks : GetByIdStep(t)
  \/ \E t \in Tasks : GetCourseStep(t)
  \/ \E t \in Tasks : SearchStep(t)
  \/ \E t \in Tasks : createCourse_save(t)
  \/ \E t \in Tasks : updateCourse_findOneAndUpdate(t)
  \/ \E t \in Tasks : deleteCourse_findOneAndDelete(t)
  \/ \E t \in Tasks : InvalidateStep(t)

SpecDetail == Init /\ [][NextDetail]_vars

\* getCourseStats and searchCourses by a reader while a writer creates
\* and deletes a course
NextStats ==
  \/ \E t \in Readers : getCourseStats(t)
  \/ \E t \in Readers : \E o \in OneOption : searchCourses(t, o)
  \/ \E t \in Tasks : SearchStep(t)
  \/ \E t \in Writers : \E d \in OneCourse :
        createCourse(t, d.course_id, d.rating, d.skill_level)
  \/ \E t \in Writers : \E id \in OneId : deleteCourse(t, id)
  \/ \E t \in Tasks : StatsStep(t)
  \/ \E t \in Tasks : createCourse_save(t)
  \/ \E t \in Tasks : deleteCourse_findOneAndDelete(t)
  \/ \E t \in Tasks : InvalidateStep(t)

SpecStats == Init /\ [][NextStats]_vars

\* the largest page and the largest limit of the paged requests
MaxPage == 2
MaxLimit == 2

\* the page and limit parameters of the paged requests
PagingOptions ==
  { << <<"page", p>>, <<"limit", l>> >> : p \in 1..MaxPage, l \in 1..MaxLimit }

\* the stores the paged requests read: none, one or both of the courses,
\* their order by rating the reverse of their order of creation
PagingStores ==
  { [id \in ids |-> [rating |-> IF id = "cs101" THEN 30 ELSE 42,
                     skill_level |-> "beginner"]] : ids \in SUBSET CourseIds }

\* the catalog holds any of these stores and Redis is unreachable, so that
\* every request computes its answer
InitPaging ==
  /\ store \in PagingStores
  /\ cache = <<>>
  /\ cacheUp = FALSE
  /\ redis = NoRedis
  /\ pc = [t \in Tasks |-> "idle"]
  /\ op = [t \in Tasks |-> NoOp]
  /\ loc = [t \in Tasks |-> Loc0]
  /\ res = [t \in Tasks |-> NoRes]
  /\ pend = [t \in Tasks |-> {}]
  /\ lastWrite = [id \in CourseIds |-> "none"]
  /\ swept = {}

\* searches and listings of every page and limit, one after another
NextPaging ==
  \/ \E t \in SeqTasks : AllIdle /\ (\E o \in PagingOptions : searchCourses(t, o))
  \/ \E t \in SeqTasks : AllIdle
        /\ (\E o \in PagingOptions :
              GET_list_page(t, "", "admin", Field(o, "page", 1), Field(o, "limit", 20)))
  \/ \E t \in Tasks : SearchStep(t)
  \/ \E t \in Tasks : ListStep(t)
  \/ \E t \in Tasks : Return(t)

SpecPaging == InitPaging /\ [][NextPaging]_vars

\* CSV files with a row that lacks a required field, rows with a rating
\* out of range, and a course_id given twice
CsvFiles ==
  { << NewDoc("cs101", 42, "beginner") >>,
    << NewDoc("", 42, "beginner"), NewDoc("cs101", 51, "beginner") >>,
    << NewDoc("cs101", 51, "beginner"), NewDoc("stats", 30, "advanced") >>,
    << NewDoc("cs101", 42, "beginner"), NewDoc("cs101", 30, "beginner") >> }

\* an admin uploads these files one after another and lists the courses
NextUpload ==
  \/ \E t \in SeqTasks : AllIdle /\ (\E f \in CsvFiles : POST_upload(t, f, "admin"))
  \/ \E t \in SeqTasks : AllIdle /\ ListCall(t)
  \/ \E t \in Tasks : POST_upload_insertMany(t)
  \/ \E t \in Tasks : ListStep(t)
  \/ \E t \in Tasks : FlushPatternKeys(t)
  \/ \E t \in Tasks : FlushPatternDel(t)
  \/ \E t \in Tasks : InvalidateDone(t)
  \/ \E t \in Tasks : Return(t)

SpecUpload == Init /\ [][NextUpload]_vars

\* health requests between reads and creations of a course, while Redis
\* goes down and comes back
NextHealth ==
  \/ \E t \in SeqTasks : AllIdle /\ GET_health(t)
  \/ \E t \in SeqTasks : AllIdle /\ (\E id \in OneId : getCourseById(t, id))
  \/ \E t \in SeqTasks : AllIdle
        /\ (\E d \in OneCourse : createCourse(t, d.course_id, d.rating, d.skill_level))
  \/ \E t \in Tasks : GET_health_dbConnect(t)
  \/ \E t \in Tasks : GET_health_get(t)
  \/ \E t \in Tasks : GetByIdStep(t)
  \/ \E t \in Tasks : createCourse_save(t)
  \/ \E t \in Tasks : RedisDel(t)
  \/ \E t \in Tasks : FlushPatternKeys(t)
  \/ \E t \in Tasks : InvalidateDone(t)
  \/ \E t \in Tasks : Return(t)
  \/ CacheFaults

SpecHealth == Init /\ [][NextHealth]_vars

\* requests for recommendations, one after another, with every response
\* of the AI
NextGemini ==
  \/ \E t \in SeqTasks : AllIdle
        /\ (\E k \in SkillLevels, genAI \in BOOLEAN, throws \in BOOLEAN, x \in AiTexts :
              generateCourseRecommendations(t, k, genAI, throws, x))
  \/ \E t \in Tasks : generateCourseRecommendations_generateContent(t)
  \/ \E t \in Tasks : Return(t)

SpecGemini == Init /\ [][NextGemini]_vars

-----------------------------------------------------------------------------
(* Properties *)

Done(t, name) == pc[t] = "done" /\ op[t].name = name

ServiceWrites == {"createCourse", "updateCourse", "deleteCourse", "bulkInsertCourses"}

\* the write returned its normal result: a record, true, or the counts
WriteSucceeded(t) ==
  /\ pc[t] = "done"
  /\ op[t].name \in ServiceWrites
  /\ res[t].status \in {"ok", "true"}

\* C1: in a sequential run with the cache available, the getCourseById(id)
\* that follows an updateCourse(id) which returned a record returns the
\* record the store holds for id, and its answer is not an entry that
\* the update outdated.
UpdateThenGet ==
  \A t \in Tasks :
    (Done(t, "getCourseById") /\ loc[t].after = "update" /\ res[t].status # "error")
      => /\ res[t].value = findOne(store, op[t].id)
         /\ ~res[t].fromStale

\* C2: whenever a read and a concurrent write have both finished, the
\* cache holds no entry computed from the state of the store before the
\* write.
NoStaleEntryAfterRace ==
  Quiescent => \A k \in DOMAIN cache : ~cache[k].stale

\* C3: in a sequential run with the cache available, the getCourseById(id)
\* that follows a deleteCourse(id) which returned true returns null, and
\* no read of id is answered from an entry the delete outdated.
DeleteThenGet ==
  \A t \in Tasks :
    (Done(t, "getCourseById") /\ res[t].status # "error")
      => /\ ~res[t].fromStale
         /\ loc[t].after = "delete" => res[t].status = "null"

\* C4: in a sequential run with the cache available, when a write of the
\* service has succeeded no search entry is left in the cache, so the
\* next searchCourses(d) misses; and what a searchCourses returns is the
\* result computed from the store as the last write left it.
SearchAfterWriteIsFresh ==
  \A t \in Tasks :
    /\ WriteSucceeded(t) => KeysMatching(cache, "search") = {}
    /\ (Done(t, "searchCourses") /\ res[t].status = "ok")
         => /\ ~res[t].fromStale
            /\ res[t].value.courses = searchFind(store, op[t].options)
            /\ res[t].value.totalCount = searchCount(store, op[t].options)

\* C4 witness: a search whose entry the latest write's invalidation had
\* deleted missed the cache and returned the created record
SearchAfterWriteMissed ==
  \E t \in Tasks :
    /\ Done(t, "searchCourses")
    /\ loc[t].wasSwept
    /\ res[t].marker = "false"
    /\ res[t].value.totalCount > 0

\* C5: when a write of the service has succeeded with the cache
\* available, none of the search:*, courses:* and course:stats keys that
\* existed when it was called is still present, nor, after update or
\* delete, the key course:{id}.
WriteSweepsKeySpace ==
  \A t \in Tasks :
    WriteSucceeded(t) =>
      \A k \in loc[t].before :
        (\/ k.prefix \in {"search", "courses"}
         \/ k = statsKey
         \/ op[t].name \in {"updateCourse", "deleteCourse"} /\ k = courseKey(op[t].id))
          => k \notin DOMAIN cache

\* C5 witness: an update succeeded that had found an entry of each kind
UpdateSweptEveryKind ==
  \E t \in Tasks :
    /\ WriteSucceeded(t)
    /\ op[t].name = "updateCourse"
    /\ \E k \in loc[t].before : k.prefix = "search"
    /\ \E k \in loc[t].before : k.prefix = "courses"
    /\ statsKey \in loc[t].before
    /\ courseKey(op[t].id) \in loc[t].before
    /\ loc[t].before \subseteq loc[t].dels

\* C6: after the PUT, DELETE and upload handlers, getCourseStats returns
\* the statistics of the store as the write left it.
StatsAfterHandlerWrite ==
  \A t \in Tasks :
    (Done(t, "getCourseStats") /\ res[t].status = "ok")
      => res[t].value = StatsOf(store)

\* C7: after a successful write, the advanced search answers with the
\* result computed from the store as the write left it.
AdvancedSearchAfterWrite ==
  \A t \in Tasks :
    (Done(t, "POST_search") /\ res[t].status = "200")
      => /\ res[t].value.courses = advancedFind(store, op[t].options)
         /\ res[t].value.totalCount = advancedCount(store, op[t].options)

\* C8: a searchCourses whose options assign the same values to the same
\* fields as the options of a cached search is a hit and reports
\* cached = true.
EquivalentOptionsHit ==
  \A t \in Tasks :
    (Done(t, "searchCourses") /\ loc[t].equivCached /\ res[t].status = "ok")
      => res[t].marker = "true"

\* C9: with the cache failing on any of its calls, no operation raises
\* an error the cache caused; a read whose get failed returns what the
\* store answers; a write that returns its normal result has applied its
\* mutation.
CacheFailureInvisible ==
  \A t \in Tasks :
    pc[t] = "done" =>
      /\ res[t].error # "cache"
      /\ (op[t].name = "getCourseById" /\ loc[t].getFailed /\ res[t].status # "error")
           => res[t].value = findOne(store, op[t].id)
      /\ (op[t].name = "searchCourses" /\ loc[t].getFailed /\ res[t].status = "ok")
           => /\ res[t].value.courses = searchFind(store, op[t].options)
              /\ res[t].value.totalCount = searchCount(store, op[t].options)
      /\ (op[t].name = "getCourseStats" /\ loc[t].getFailed /\ res[t].status = "ok")
           => res[t].value = StatsOf(store)
      /\ (op[t].name \in {"createCourse", "updateCourse"} /\ res[t].status = "ok")
           => /\ op[t].id \in DOMAIN store
              /\ store[op[t].id].rating = op[t].rating
              /\ res[t].value = findOne(store, op[t].id)
      /\ (op[t].name = "deleteCourse" /\ res[t].status = "true")
           => op[t].id \notin DOMAIN store
      /\ (op[t].name = "bulkInsertCourses" /\ res[t].status = "ok")
           => /\ \A i \in 1..Len(op[t].rows) : op[t].rows[i].course_id \in DOMAIN store
              /\ res[t].inserted + res[t].duplicates = Len(op[t].rows)

\* C9 witness: a getCourseById whose cache get failed returned the record
\* of the store
ReadThroughWhileCacheDown ==
  \E t \in Tasks :
    /\ Done(t, "getCourseById")
    /\ loc[t].getFailed
    /\ ~cacheUp
    /\ res[t].status = "ok"
    /\ res[t].value = findOne(store, op[t].id)

\* C10: a write whose store mutation threw, and an update or delete that
\* matched no record (null, false), have deleted no cache key.
NoInvalidationWithoutMutation ==
  \A t \in Tasks :
    (pc[t] = "done" /\ op[t].name \in ServiceWrites
       /\ res[t].status \in {"error", "null", "false"})
      => /\ loc[t].dels = {}
         /\ res[t].status = "error" => res[t].error \in {"store", "validation", "duplicate"}
         /\ res[t].status \in {"null", "false"} => op[t].id \notin DOMAIN store

\* C10 witness: an update that matched no record returned null while the
\* keys an invalidation deletes were cached
UpdateOfNoRecordKeptKeys ==
  \E t \in Tasks :
    /\ Done(t, "updateCourse")
    /\ res[t].status = "null"
    /\ statsKey \in DOMAIN cache
    /\ KeysMatching(cache, "search") # {}

ReadOps == {"getCourseById", "searchCourses", "getCourseStats", "GET_list", "POST_search"}
HandlerWrites == {"PUT", "DELETE", "POST_upload"}

\* the step gives key k a value: it creates the entry or rewrites it
Sets(k) ==
  /\ k \in DOMAIN cache'
  /\ k \in DOMAIN cache =>
       \/ cache'[k].value # cache[k].value
       \/ cache'[k].ttl # cache[k].ttl

\* C11: no write operation sets a cache key: every step that gives a key
\* a value is the set of a read operation that missed the cache, and a
\* step of a write operation leaves the cache with no key it did not have.
WritesNeverSet ==
  [][ /\ \A k \in DOMAIN cache' :
           Sets(k) => \E t \in Tasks : /\ op[t].name \in ReadOps
                                       /\ pc[t] # pc'[t]
                                       /\ pc'[t] = "done"
                                       /\ ~res'[t].hit
      /\ \A t \in Tasks :
           (op[t].name \in ServiceWrites \cup HandlerWrites /\ pc[t] # pc'[t])
             => DOMAIN cache' \subseteq DOMAIN cache ]_vars

\* C11 witness: a write has returned after deleting keys, and an entry a
\* read created is in the cache
WriteDeletedReadCreated ==
  \E t \in Tasks :
    /\ pc[t] = "done"
    /\ op[t].name \in ServiceWrites \cup HandlerWrites
    /\ res[t].status \in {"ok", "true", "200"}
    /\ loc[t].dels # {}
    /\ DOMAIN cache # {}

\* C12: every entry a read path has written carries the expiry of its
\* tier (detail 1800 s, search 600 s, listing 300 s, statistics 900 s),
\* none is without an expiry, and none is in the cache, where a get
\* could hit it, once its expiry has elapsed.
EntriesCarryTierTtl ==
  \A k \in DOMAIN cache :
    LET kind == JSONparse(cache[k].value).kind IN
      /\ kind \in {"course", "search", "list", "stats"}
      /\ kind = "course" => cache[k].ttl = 1800
      /\ kind = "search" => cache[k].ttl = 600
      /\ kind = "list" => cache[k].ttl = 300
      /\ kind = "stats" => cache[k].ttl = 900
      /\ cache[k].ttl > 0
      /\ cache[k].age < cache[k].ttl

\* C12 witness: an entry of every tier is cached, the detail entry in the
\* last interval before its expiry
EveryTierCached ==
  /\ \E k \in DOMAIN cache : /\ JSONparse(cache[k].value).kind = "course"
                             /\ cache[k].age + TickSeconds = cache[k].ttl
  /\ \E k \in DOMAIN cache : JSONparse(cache[k].value).kind = "search"
  /\ \E k \in DOMAIN cache : JSONparse(cache[k].value).kind = "list"
  /\ \E k \in DOMAIN cache : JSONparse(cache[k].value).kind = "stats"

\* C13: under every interleaving of a read with writes, an entry that
\* differs from what the store answers is one that a write has outdated,
\* it is younger than its expiry, and it leaves the cache when the expiry
\* elapses; an entry that no write has outdated is the store's answer.
EventuallyConsistent ==
  /\ [](\A k \in DOMAIN cache :
          /\ cache[k].ttl > 0 /\ cache[k].age < cache[k].ttl
          /\ ~cache[k].stale =>
               /\ JSONparse(cache[k].value).courses = searchFind(store, k.opts)
               /\ JSONparse(cache[k].value).totalCount = searchCount(store, k.opts))
  /\ \A o \in OneOption :
       (searchKey(o) \in DOMAIN cache /\ cache[searchKey(o)].stale)
         ~> ~(searchKey(o) \in DOMAIN cache /\ cache[searchKey(o)].stale)

\* C13 witness: the read and the write have finished and the cache holds,
\* one interval old, a search result that differs from the store's answer
OutdatedEntryWithinTtl ==
  /\ Quiescent
  /\ \E k \in DOMAIN cache :
       /\ cache[k].stale
       /\ cache[k].age > 0
       /\ JSONparse(cache[k].value).courses # searchFind(store, k.opts)

\* C14: every read of the service and the listing return with the marker
\* cached = true when the cache answered and cached = false when the
\* store did.
ReadsCarryCachedMarker ==
  \A t \in Tasks :
    (pc[t] = "done"
       /\ op[t].name \in {"getCourseById", "searchCourses", "getCourseStats", "GET_list"}
       /\ res[t].status \in {"ok", "200"})
      => res[t].marker = (IF res[t].hit THEN "true" ELSE "false")

\* C15: in a sequential run with the cache available, whatever came
\* before, the getCourseById(id) that follows a successful createCourse
\* of id returns the record that was created.
CreateThenGet ==
  \A t \in Tasks :
    (Done(t, "getCourseById") /\ loc[t].after = "create" /\ res[t].status # "error")
      => /\ res[t].status = "ok"
         /\ op[t].id \in DOMAIN store
         /\ res[t].value = CoursePayload(Doc(store, op[t].id))

\* the pc of the store call of every write
StoreCalls ==
  {"createCourse_save", "updateCourse_findOneAndUpdate", "deleteCourse_findOneAndDelete",
   "bulkInsertCourses_insertMany", "PUT_findOneAndUpdate", "DELETE_findOneAndDelete",
   "POST_upload_insertMany"}

ValidRecord(r) ==
  r.rating \in 0..50 /\ r.skill_level \in {"beginner", "intermediate", "advanced"}

\* every stored record has a rating in [0,5] and one of the three skill
\* levels; the store maps a course_id to one record
ValidStore == \A id \in DOMAIN store : ValidRecord(store[id])

\* the write task t is about to send to the store would break a rule
WouldBreak(t) ==
  CASE op[t].name = "createCourse" ->
         op[t].id \in DOMAIN store
           \/ ~ValidRecord([rating |-> op[t].rating, skill_level |-> op[t].skill])
    [] op[t].name \in {"updateCourse", "PUT"} -> op[t].rating \notin 0..50
    [] op[t].name \in {"bulkInsertCourses", "POST_upload"} ->
         \E i \in 1..Len(op[t].rows) :
           op[t].rows[i].course_id \in DOMAIN store \/ ~ValidRecord(op[t].rows[i])
    [] OTHER -> FALSE

\* task t makes its store call in this step
StoreCallOf(t) == pc[t] \in StoreCalls /\ pc'[t] # pc[t]

\* C16 as stated: the store always satisfies the rules, and a write that
\* would break one of them leaves the whole store unchanged.
OffendingWriteRejected ==
  /\ []ValidStore
  /\ [][\A t \in Tasks : (StoreCallOf(t) /\ WouldBreak(t)) => store' = store]_vars

\* C16: after any sequence of creations, updates, deletions, bulk inserts
\* and uploads every stored rating lies in [0,5] and every stored skill
\* level is one of the three; a creation or an update that would break a
\* rule leaves the store unchanged; a bulk insert or an upload changes no
\* record that was there and adds only valid rows of its input whose
\* course_id was free.
StoreRulesKept ==
  /\ []ValidStore
  /\ [][\A t \in Tasks : StoreCallOf(t) =>
          /\ (op[t].name \in {"createCourse", "updateCourse", "PUT"} /\ WouldBreak(t))
               => store' = store
          /\ op[t].name \in {"createCourse", "bulkInsertCourses", "POST_upload"}
               => /\ \A id \in DOMAIN store :
                       id \in DOMAIN store' /\ store'[id] = store[id]
                  /\ op[t].name # "createCourse" =>
                       \A id \in DOMAIN store' \ DOMAIN store :
                         \E i \in 1..Len(op[t].rows) :
                           /\ ValidRecord(op[t].rows[i])
                           /\ Doc(store', id) = op[t].rows[i]]_vars

\* an upload holding a row out of range has inserted its other row, and a
\* record is stored
UploadLeftOutInvalidRow ==
  \E t \in Tasks :
    /\ Done(t, "POST_upload") /\ res[t].status = "200" /\ res[t].inserted = 1
    /\ \E i \in 1..Len(op[t].rows) : ~ValidRecord(op[t].rows[i])
    /\ store # << >>

MutationsNeedAdmin ==
  [][\A t \in Tasks :
       (StoreCallOf(t) /\ op[t].name \in {"PUT", "DELETE", "POST_upload"}
          /\ op[t].token \in {"none", "invalid", "user"})
         => /\ pc'[t] = "done" /\ res'[t].status = "401"
            /\ store' = store /\ cache' = cache]_vars

\* a PUT or a DELETE that was not an admin's has been refused, while the
\* record it names is stored and the cache holds entries
NonAdminRefused ==
  \E t \in Tasks :
    /\ pc[t] = "done" /\ op[t].name \in {"PUT", "DELETE"}
    /\ op[t].token \in {"none", "invalid", "user"} /\ res[t].status = "401"
    /\ op[t].id \in DOMAIN store /\ cache # << >>

\* C19: no Cache Gateway operation throws to its caller. When connecting
\* or the command fails, get returns null and set, del, exists and
\* flushPattern return false; when it succeeds, set, del and flushPattern
\* return true; and no operation of the service ends with an error the
\* cache raised.
GatewayNeverThrows ==
  LET keys == DOMAIN cache \cup {courseKey(id) : id \in CourseIds}
      prefixes == {"search", "courses", "course"}
      flag == IF cacheUp THEN "true" ELSE "false"
  IN /\ \A k \in keys :
          /\ redisGet(k).outcome = (IF cacheUp /\ k \in DOMAIN cache THEN "value" ELSE "null")
          /\ redisSet(k, JSONstringify(NullPayload), COURSE_DETAIL, FALSE).outcome = flag
          /\ redisDel({k}).outcome = flag
          /\ redisExists(k).outcome \in {"true", "false"}
          /\ ~cacheUp => redisExists(k).outcome = "false"
     /\ \A p \in prefixes : flushPattern(p).outcome = flag
     /\ \A t \in Tasks : pc[t] = "done" => res[t].error # "cache"

\* a getCourseStats ran while the cache was failing: its get returned null
\* although the statistics entry exists, and it returned its result
GetFailedOnExistingEntry ==
  \E t \in Tasks :
    /\ Done(t, "getCourseStats") /\ loc[t].getFailed /\ res[t].status = "ok"
    /\ ~cacheUp /\ statsKey \in DOMAIN cache

\* C20: a bulkInsertCourses of N valid records of which M have a
\* course_id already stored does not fail the batch, reports
\* insertedCount = N-M and duplicateCount = M and leaves the stored
\* records as they were; afterwards getCourseById returns each record it
\* inserted.
BulkInsertThenGet ==
  /\ [][\A t \in Tasks :
          (StoreCallOf(t) /\ op[t].name = "bulkInsertCourses" /\ pc'[t] = "inval") =>
            LET N == Len(op[t].rows)
                M == Cardinality({i \in 1..N : op[t].rows[i].course_id \in DOMAIN store})
            IN /\ loc'[t].ret.status = "ok"
               /\ loc'[t].ret.inserted = N - M
               /\ loc'[t].ret.duplicates = M
               /\ \A id \in DOMAIN store : id \in DOMAIN store' /\ store'[id] = store[id]]_vars
  /\ [](\A t \in Tasks :
          (Done(t, "getCourseById") /\ loc[t].after = "bulkInsert"
             /\ res[t].status # "error")
            => /\ res[t].status = "ok"
               /\ op[t].id \in DOMAIN store
               /\ res[t].value = findOne(store, op[t].id))

\* C21: when two updateCourse calls on one course_id have overlapped with
\* no read running, a getCourseById(id) called after both have returned
\* returns the record the store holds, that is the value of the store
\* write applied last, and its answer is no entry cached before the writes.
LastStoreWriteWins ==
  \A t \in Tasks :
    (Done(t, "getCourseById") /\ loc[t].after = "updateRaced" /\ res[t].status # "error")
      => /\ res[t].status = "ok"
         /\ res[t].value = findOne(store, op[t].id)
         /\ ~res[t].fromStale

\* C22: every search query sent to the store has page >= 1 and
\* 1 <= limit <= 100: a searchCourses that is querying the store was
\* called with a page and a limit inside these bounds.
QueriesWithinPageBounds ==
  \A t \in Tasks :
    (op[t].name = "searchCourses" /\ pc[t] = "searchCourses_query")
      => /\ Field(op[t].options, "page", 1) >= 1
         /\ Field(op[t].options, "limit", 20) \in 1..100

\* C23 as stated: the delay before retry n never exceeds the cap, and
\* below the cap it grows exponentially in n: successive delays have a
\* constant ratio.
BackoffExponentialCapped ==
  \A c \in ClientIds :
    LET n == redis.clients[c].retries IN
      /\ redis.clients[c].delay <= 1000
      /\ (n >= 2 /\ reconnectStrategy(n + 1) < 1000)
           => reconnectStrategy(n + 1) * reconnectStrategy(n - 1)
                = reconnectStrategy(n) * reconnectStrategy(n)

\* C23: the reconnection delay is a capped linear backoff: the delay before
\* retry n grows by 50 ms with each retry until it reaches 1000 ms, stays
\* there, and never exceeds 1000 ms for any n.
BackoffLinearCapped ==
  \A c \in ClientIds :
    LET n == redis.clients[c].retries IN
      /\ redis.clients[c].delay <= 1000
      /\ n >= 1 => redis.clients[c].delay = reconnectStrategy(n - 1)
      /\ reconnectStrategy(n) <= 1000
      /\ reconnectStrategy(n + 1) < 1000 => reconnectStrategy(n + 1) - reconnectStrategy(n) = 50
      /\ reconnectStrategy(n) = 1000 => reconnectStrategy(n + 1) = 1000

\* a client has retried past the point where the delay reaches the cap
DelayAtCap ==
  \E c \in ClientIds :
    /\ redis.clients[c].retries > 21
    /\ redis.clients[c].delay = 1000
    /\ redis.clients[c].state = "reconnecting"

\* C24: the connection is made lazily and reused: a client is created
\* only by a cache operation, under any interleaving of cache operations
\* and client events at most one client is connected or connecting, and a
\* client is created only when every earlier client has failed to connect.
SingleLazyClient ==
  /\ [](Cardinality(LiveClients) <= 1)
  /\ [][Len(redis.clients') > Len(redis.clients)
          => /\ \E t \in Tasks : pc[t] = "connect" /\ pc'[t] = "connect_await"
             /\ LiveClients = {}]_vars

\* C25: the key spaces of the read paths are disjoint: for a course_id
\* that validation accepts, a getCourseById answered from the cache never
\* returns a statistics payload, and a getCourseStats answered from the
\* cache never returns a course record.
CachedPayloadOfItsKind ==
  \A t \in Tasks :
    /\ (Done(t, "getCourseById") /\ CourseIdValid(op[t].id) /\ res[t].hit)
         => res[t].value.kind = "course"
    /\ (Done(t, "getCourseStats") /\ res[t].hit) => res[t].value.kind = "stats"

\* C26: every entry stored under a key course:{id} has the same payload
\* shape whichever read populated it: a getCourseById answered from the
\* cache returns the course record itself, and a GET /courses/{id}
\* answered from the cache returns what it answers on a miss.
DetailEntriesOfOneShape ==
  /\ \A k \in DOMAIN cache : \A j \in DOMAIN cache :
       (k.prefix = "course" /\ j.prefix = "course")
         => JSONparse(cache[k].value).kind = JSONparse(cache[j].value).kind
  /\ \A t \in Tasks :
       /\ (Done(t, "getCourseById") /\ res[t].hit) => res[t].value.kind = "course"
       /\ (Done(t, "GET_course") /\ res[t].hit) => res[t].value.kind = "response"

\* the reads of a course record
DetailReads == {"getCourseById", "GET_course"}

\* C28: a not-found outcome is never cached: a getCourseById or a
\* GET /courses/{id} on an id with no record answers null (404) and writes
\* no cache entry, no entry holds a null, and the first read after the
\* creation of a record reads the store and returns that record.
NotFoundNeverCached ==
  /\ [][\A t \in Tasks :
          (pc[t] # "done" /\ pc'[t] = "done" /\ op[t].name \in DetailReads
             /\ op[t].id \notin DOMAIN store /\ res'[t].status \notin {"error", "500"})
            => res'[t].status \in {"null", "404"} /\ cache' = cache]_vars
  /\ [][\A t \in Tasks :
          (pc[t] \in {"getCourseById_findOne", "GET_course_findOne"}
             /\ pc'[t] = "done" /\ res'[t].status \in {"null", "404"})
            => cache' = cache /\ op[t].id \notin DOMAIN store]_vars
  /\ [](\A k \in DOMAIN cache : JSONparse(cache[k].value).kind # "null")
  /\ [][\A t \in Tasks :
          (pc[t] # "done" /\ pc'[t] = "done" /\ op[t].name \in DetailReads
             /\ loc'[t].after = "create" /\ res'[t].status \notin {"error", "500"})
            => /\ res'[t].status \in {"ok", "200"}
               /\ ~res'[t].hit
               /\ op[t].id \in DOMAIN store
               /\ res'[t].value.courses = <<Doc(store, op[t].id)>>]_vars

\* C27: whatever the availability of the cache while an updateCourse or a
\* deleteCourse that succeeded ran its invalidation, the getCourseById of
\* that id that follows it is not answered from an entry cached before
\* the write.
FreshAcrossOutage ==
  \A t \in Tasks :
    (Done(t, "getCourseById") /\ loc[t].after \in {"update", "delete"}
       /\ res[t].status # "error")
      => ~(res[t].hit /\ res[t].fromStale)

\* C29: no step of an updateCourse(id) or a deleteCourse(id) touches the
\* detail entry of another course: an entry course:{id'} with id' # id
\* that holds a course record and has not expired is still there, with
\* the same value, after the step.
OtherDetailEntriesKept ==
  [][\A t \in Tasks :
       (op[t].name \in {"updateCourse", "deleteCourse"} /\ pc[t] \notin {"idle", "done"}
          /\ ~Expiry)
         => \A k \in DOMAIN cache :
              (k.prefix = "course" /\ k.id # op[t].id
                 /\ JSONparse(cache[k].value).kind = "course")
                => k \in DOMAIN cache' /\ cache'[k].value = cache[k].value]_vars

\* C30: options objects that differ only in leaving out a field or giving
\* it its default are one query under one key: a searchCourses whose get
\* succeeded and found nothing has no entry of the same query in the cache.
DefaultedOptionsHit ==
  \A t \in Tasks :
    (pc[t] = "searchCourses_query" /\ ~loc[t].getFailed)
      => \A k \in KeysMatching(cache, "search") :
           searchDestructured(k.opts) # searchDestructured(op[t].options)

\* the sum of the counts of a grouping
RECURSIVE SumCounts(_)
SumCounts(counts) ==
  IF DOMAIN counts = {} THEN 0
  ELSE LET k == CHOOSE x \in DOMAIN counts : TRUE
       IN counts[k] + SumCounts([x \in DOMAIN counts \ {k} |-> counts[x]])

\* C31: the statistics a getCourseStats computed on a miss describe one
\* state of the store, whatever writes ran beside it: in what it returned
\* and in what is cached under course:stats, the counts by skill level
\* sum to totalCourses.
StatsOfOneState ==
  /\ \A k \in DOMAIN cache :
       JSONparse(cache[k].value).kind = "stats"
         => SumCounts(JSONparse(cache[k].value).stats.skillLevelCount)
              = JSONparse(cache[k].value).stats.totalCourses
  /\ \A t \in Tasks :
       (Done(t, "getCourseStats") /\ res[t].status = "ok")
         => SumCounts(res[t].value.stats.skillLevelCount) = res[t].value.stats.totalCourses

\* the whole sorted result a paged request cuts its page from
SortedResult(t) ==
  IF op[t].name = "searchCourses"
  THEN SortByRating(store, Matching(store, Field(op[t].options, "skillLevel", ""),
                                    HasField(op[t].options, "minRating"),
                                    Field(op[t].options, "minRating", 0)))
  ELSE SortByCreated(store, {id \in DOMAIN store :
                               op[t].skill # "" => store[id].skill_level = op[t].skill},
                     Len(IdOrder))

\* C32: a search or a listing that computed its answer for a page >= 1 and
\* a limit >= 1 has totalPages = ceil(totalCount / limit), hasPrev exactly
\* when page > 1, hasNext exactly when page < totalPages, and returns the
\* records at positions (page-1)*limit .. page*limit-1 of the sorted
\* result, at most limit of them.
PaginationConsistent ==
  \A t \in Tasks :
    (pc[t] = "done" /\ op[t].name \in {"searchCourses", "GET_list"}
       /\ res[t].status \in {"ok", "200"} /\ ~res[t].hit)
      => LET page == Field(op[t].options, "page", 1)
             limit == Field(op[t].options, "limit", 20)
             totalCount == res[t].value.totalCount
             p == res[t].value.pagination
             courses == res[t].value.courses
             sorted == SortedResult(t)
             onPage == {i \in 1..Len(sorted) :
                          (page - 1) * limit <= i - 1 /\ i - 1 <= page * limit - 1}
         IN (page >= 1 /\ limit >= 1)
              => /\ totalCount = Len(sorted)
                 /\ p.totalPages * limit >= totalCount
                 /\ (p.totalPages - 1) * limit < totalCount
                 /\ p.hasPrev <=> page > 1
                 /\ p.hasNext <=> page < p.totalPages
                 /\ Len(courses) <= limit
                 /\ Len(courses) = Cardinality(onPage)
                 /\ \A i \in onPage : courses[i - (page - 1) * limit] = sorted[i]

\* a request with limit 2 found one record: one page and no next page
PartialLastPage ==
  \E t \in Tasks :
    /\ pc[t] = "done" /\ op[t].name \in {"searchCourses", "GET_list"}
    /\ res[t].status \in {"ok", "200"} /\ ~res[t].hit
    /\ Field(op[t].options, "limit", 20) = 2
    /\ res[t].value.totalCount = 1
    /\ res[t].value.pagination.totalPages = 1
    /\ ~res[t].value.pagination.hasNext

ErrorRowIsFileLine ==
  \A t \in Tasks :
    (Done(t, "POST_upload") /\ res[t].status = "200")
      => \A e \in 1..Len(res[t].details) :
           LET line == res[t].details[e].row IN
             /\ line - 1 \in 1..Len(op[t].rows)
             /\ op[t].rows[line - 1].course_id = res[t].details[e].course_id
             /\ ~validateCourseData(op[t].rows[line - 1])

\* C35: the summary of a completed upload accounts for every data row of
\* the file: totalRows is their number, validCourses + errorRows =
\* totalRows, insertedCourses + duplicateCourses = validCourses, and no
\* row that failed validation is in the store.
SummaryAccountsForEveryRow ==
  \A t \in Tasks :
    (Done(t, "POST_upload") /\ res[t].status = "200")
      => /\ res[t].totalRows = Len(op[t].rows)
         /\ res[t].validCourses + res[t].errorRows = res[t].totalRows
         /\ res[t].inserted + res[t].duplicates = res[t].validCourses
         /\ \A i \in 1..Len(op[t].rows) :
              ~validateCourseData(op[t].rows[i])
                => ~(op[t].rows[i].course_id \in DOMAIN store
                       /\ store[op[t].rows[i].course_id].rating = op[t].rows[i].rating)

\* C36: the health endpoint answers 200 exactly when the store connection
\* succeeded and 503 otherwise, whatever the state of the cache; its redis
\* field is 'disconnected' whenever the probe could not reach the cache,
\* and 'connected' only when the probe get succeeded.
HealthReportsTruthfully ==
  \A t \in Tasks :
    Done(t, "GET_health")
      => /\ res[t].status \in {"200", "503"}
         /\ res[t].status = "200" <=> Field(res[t].details, "mongodb", "") = "connected"
         /\ loc[t].getFailed => Field(res[t].details, "redis", "") = "disconnected"
         /\ Field(res[t].details, "redis", "") = "connected" => ~loc[t].getFailed

\* the AI response holds a JSON array that parses, somewhere in its text
HoldsParsableArray(text) ==
  \E i \in 1..Len(text) : \E j \in i..Len(text) : ParsesAsArray(SubSeq(text, i, j))

\* C37: generateCourseRecommendations always returns a list; without an API
\* key, when the AI call throws, or when the AI response holds no JSON
\* array that parses, the list is the fallback list: 5 recommendations
\* mock-1 .. mock-5, each with the requested skill level.
FallbackNeverFails ==
  \A t \in Tasks :
    Done(t, "generateCourseRecommendations")
      => /\ res[t].status = "ok"
         /\ (\/ ~Field(op[t].options, "genAI", FALSE)
             \/ Field(op[t].options, "throws", FALSE)
             \/ ~HoldsParsableArray(op[t].rows))
              => /\ Len(res[t].details) = 5
                 /\ \A i \in 1..5 :
                      /\ res[t].details[i].id = <<"mock", i>>
                      /\ res[t].details[i].skillLevel = op[t].skill

\* the AI answered with brackets around text that is no JSON, and the
\* request returned the fallback list
UnparsableResponseFellBack ==
  \E t \in Tasks :
    /\ Done(t, "generateCourseRecommendations")
    /\ Field(op[t].options, "genAI", FALSE) /\ ~Field(op[t].options, "throws", FALSE)
    /\ jsonMatch(op[t].rows) # <<>> /\ ~HoldsParsableArray(op[t].rows)
    /\ Len(res[t].details) = 5 /\ res[t].details[1].id = <<"mock", 1>>

====
